---- MODULE Spec2Model ----
(***************************************************************************)
(* A model of the AI Financial Tracker: the table pipeline of              *)
(* data_processor.py (validate_financial_data, process_data), the trend    *)
(* projector and health scorer of ai_predictions.py, and the session       *)
(* state of app.py.                                                        *)
(*                                                                         *)
(* A table is a pandas DataFrame: [none, index, cols].  index holds the    *)
(* row labels (a RangeIndex 1..n as read from a file; sort_values permutes *)
(* it), cols is the sequence of columns, each [name, dtype, cells] with    *)
(* one cell per row.  A cell is [k, v, d]:                                 *)
(*   k = "num"  : the number v/d (a normalised fraction, d > 0)            *)
(*   k = "na"   : a missing value (NaN, None, NaT)                         *)
(*   k = "dstr" : a string that parses as the date of day v                *)
(*   k = "text" : a string that does not parse as a date (v names it;      *)
(*                v = 0 is the literal "Unknown")                          *)
(*   k = "ts"   : a Timestamp, v whole days and d nanoseconds past them    *)
(* Column names are sequences of one-character strings, so that lower()    *)
(* and the substring test "indicator in name" are computed, not assumed.   *)
(***************************************************************************)
EXTENDS Integers, Sequences, FiniteSets

\* ------------------------------------------------------------------ bounds

\* Rows of the tables drawn as inputs of validate_financial_data/process_data.
MaxRows == 5

\* ------------------------------------------------------- numbers, sequences

Abs(x) == IF x < 0 THEN -x ELSE x

RECURSIVE GCD(_, _)
GCD(a, b) == IF b = 0 THEN a ELSE GCD(b, a % b)

\* The fraction n/d in lowest terms with a positive denominator.
Rat(n, d) ==
    LET g == GCD(Abs(n), Abs(d))
        s == IF d < 0 THEN -1 ELSE 1
    IN  [n |-> (s * n) \div g, d |-> (s * d) \div g]

\* Sums go over the least common denominator and products cancel crosswise,
\* so that intermediate integers stay as small as the values allow.
RAdd(a, b) ==
    LET g == GCD(a.d, b.d)
    IN  Rat(a.n * (b.d \div g) + b.n * (a.d \div g), (a.d \div g) * b.d)
RNeg(a) == [n |-> -a.n, d |-> a.d]
RSub(a, b) == RAdd(a, RNeg(b))
RMul(a, b) ==
    LET g1 == GCD(Abs(a.n), b.d)
        g2 == GCD(Abs(b.n), a.d)
    IN  IF a.n = 0 \/ b.n = 0 THEN [n |-> 0, d |-> 1]
        ELSE [n |-> (a.n \div g1) * (b.n \div g2), d |-> (a.d \div g2) * (b.d \div g1)]
RDiv(a, b) == RMul(a, Rat(b.d, b.n))
RLt(a, b) == RSub(a, b).n < 0
RLe(a, b) == RSub(a, b).n <= 0
RInt(i) == [n |-> i, d |-> 1]

\* The sum of a sequence of fractions, by halves.
RECURSIVE SeqSum(_)
SeqSum(s) ==
    IF s = <<>> THEN RInt(0)
    ELSE IF Len(s) = 1 THEN s[1]
    ELSE LET h == Len(s) \div 2
         IN  RAdd(SeqSum(SubSeq(s, 1, h)), SeqSum(SubSeq(s, h + 1, Len(s))))

Range(s) == {s[i] : i \in DOMAIN s}

\* ------------------------------------------------------------------- cells

NumCell(r) == [k |-> "num", v |-> r.n, d |-> r.d]
NA == [k |-> "na", v |-> 0, d |-> 1]
DateStr(day) == [k |-> "dstr", v |-> day, d |-> 1]
Text(id) == [k |-> "text", v |-> id, d |-> 1]
Timestamp(day, ns) == [k |-> "ts", v |-> day, d |-> ns]
Unknown == Text(0)

isnull(c) == c.k = "na"
CellRat(c) == [n |-> c.v, d |-> c.d]

\* ------------------------------------------------------------ column names

UpperChars == <<"A","B","C","D","E","F","G","H","I","J","K","L","M",
                "N","O","P","Q","R","S","T","U","V","W","X","Y","Z">>
LowerChars == <<"a","b","c","d","e","f","g","h","i","j","k","l","m",
                "n","o","p","q","r","s","t","u","v","w","x","y","z">>

\* str.lower(), character by character.
lower(name) ==
    [i \in DOMAIN name |->
        IF \E j \in DOMAIN UpperChars : UpperChars[j] = name[i]
        THEN LowerChars[CHOOSE j \in DOMAIN UpperChars : UpperChars[j] = name[i]]
        ELSE name[i]]

\* Python's "sub in s" on strings.
Contains(s, sub) ==
    \E i \in 0..(Len(s) - Len(sub)) :
        \A j \in 1..Len(sub) : s[i + j] = sub[j]

NoColumn == <<"N","o","n","e">>

ColDate == <<"D","a","t","e">>
ColUpdate == <<"u","p","d","a","t","e">>
ColDay == <<"d","a","y">>
ColAmount == <<"a","m","o","u","n","t">>
ColMemo == <<"m","e","m","o">>
ColPosted == <<"p","o","s","t","e","d">>
ColBalance == <<"b","a","l","a","n","c","e">>

\* ------------------------------------------------------------------ tables

NoData == [none |-> TRUE, index |-> <<>>, cols |-> <<>>]

Column(name, dtype, cells) == [name |-> name, dtype |-> dtype, cells |-> cells]
Table(index, cols) == [none |-> FALSE, index |-> index, cols |-> cols]

NRows(t) == Len(t.index)
NCols(t) == Len(t.cols)
Columns(t) == [i \in 1..NCols(t) |-> t.cols[i].name]
\* DataFrame.empty: some axis has length 0.
empty(t) == NRows(t) = 0 \/ NCols(t) = 0

ColPos(t, name) == CHOOSE i \in 1..NCols(t) : t.cols[i].name = name
Col(t, name) == t.cols[ColPos(t, name)]
HasCol(t, name) == \E i \in 1..NCols(t) : t.cols[i].name = name

\* Series.isnull().mean() as the fraction of missing cells, and the counts.
CountNull(cells) == Cardinality({i \in DOMAIN cells : isnull(cells[i])})
CountNotNull(cells) == Len(cells) - CountNull(cells)

\* ------------------------------------------------------------- to_datetime

\* pd.to_datetime on one value.  A number is taken as nanoseconds since the
\* epoch (its fraction dropped), a date string as midnight of its day, a
\* missing value as NaT; a Timestamp is kept.
to_datetime_cell(c) ==
    CASE c.k = "num"  -> Timestamp(0, c.v \div c.d)
      [] c.k = "dstr" -> Timestamp(c.v, 0)
      [] c.k = "ts"   -> c
      [] OTHER        -> NA

\* Whether pd.to_datetime(series) returns (TRUE) or raises (FALSE): with
\* errors='raise', the default too, one string that is no date raises.
to_datetime_ok(col) == \A i \in DOMAIN col.cells : col.cells[i].k # "text"

to_datetime(col) ==
    Column(col.name, "datetime",
           [i \in DOMAIN col.cells |-> to_datetime_cell(col.cells[i])])

\* ------------------------------------------ validate_financial_data (5-70)

financial_keywords ==
    << <<"a","m","o","u","n","t">>, <<"p","r","i","c","e">>,
       <<"v","a","l","u","e">>, <<"c","o","s","t">>,
       <<"r","e","v","e","n","u","e">>, <<"i","n","c","o","m","e">>,
       <<"e","x","p","e","n","s","e">>, <<"b","a","l","a","n","c","e">>,
       <<"p","r","o","f","i","t">>, <<"s","a","l","e">>,
       <<"a","s","s","e","t">>, <<"l","i","a","b","i","l","i","t","y">>,
       <<"c","a","s","h">>, <<"f","u","n","d">>, <<"t","a","x">>,
       <<"i","n","t","e","r","e","s","t">>,
       <<"d","i","v","i","d","e","n","d">>,
       <<"p","a","y","m","e","n","t">> >>

\* data.isnull().all().all()
AllNull(data) ==
    \A i \in 1..NCols(data) :
        \A j \in DOMAIN data.cols[i].cells : isnull(data.cols[i].cells[j])

\* test_conversion.notna().mean() >= 0.8 (4/5, exactly representable
\* comparisons: notna/rows >= 4/5).
ValidDates(col) ==
    5 * CountNotNull(to_datetime(col).cells) >= 4 * Len(col.cells)

\* The loop of lines 34-45: whether column i is accepted as a date column.
LooksLikeDate(col) == to_datetime_ok(col) /\ ValidDates(col)

\* The first column the loop accepts (it breaks there), or NoColumn.
ValidateDateColumn(data) ==
    IF \E i \in 1..NCols(data) : LooksLikeDate(data.cols[i])
    THEN data.cols[CHOOSE i \in 1..NCols(data) :
                       /\ LooksLikeDate(data.cols[i])
                       /\ \A j \in 1..(i - 1) : ~LooksLikeDate(data.cols[j])].name
    ELSE NoColumn

\* data.select_dtypes(include=['number']).columns
select_dtypes_number(data) ==
    SelectSeq(Columns(data), LAMBDA c : Col(data, c).dtype = "number")

\* found_financial_cols (lines 60-64)
FinancialCols(data) ==
    SelectSeq(Columns(data),
              LAMBDA c : \E k \in DOMAIN financial_keywords :
                            Contains(lower(c), financial_keywords[k]))

Verdict(ok, reason, date_col, fin) ==
    [ok |-> ok, reason |-> reason, date_column_name |-> date_col,
     financial_cols |-> fin]

\* (is_valid, message): the message as the return statement that built it,
\* with the names it interpolates.
validate_financial_data(data) ==
    IF data.none THEN Verdict(FALSE, "no_data", NoColumn, <<>>)
    ELSE IF empty(data) THEN Verdict(FALSE, "empty", NoColumn, <<>>)
    ELSE IF NCols(data) < 2 THEN Verdict(FALSE, "too_few_columns", NoColumn, <<>>)
    ELSE IF AllNull(data) THEN Verdict(FALSE, "all_null", NoColumn, <<>>)
    ELSE IF ValidateDateColumn(data) = NoColumn
         THEN Verdict(FALSE, "no_date_column", NoColumn, <<>>)
    ELSE IF Len(select_dtypes_number(data)) = 0
         THEN Verdict(FALSE, "no_numeric_columns", ValidateDateColumn(data), <<>>)
    ELSE IF FinancialCols(data) # <<>>
         THEN Verdict(TRUE, "valid_financial", ValidateDateColumn(data),
                      FinancialCols(data))
    ELSE Verdict(TRUE, "dates_and_numbers", ValidateDateColumn(data), <<>>)

\* ----------------------------------------------------- process_data (72-172)

date_indicators ==
    << <<"d","a","t","e">>, <<"t","i","m","e">>, <<"d","a","y">>,
       <<"m","o","n","t","h">>, <<"y","e","a","r">>,
       <<"p","e","r","i","o","d">> >>

RECURSIVE NamePass(_, _, _, _)
\* Lines 103-113: the loops over the indicators (ii) and the columns (ci), with
\* date_cols_attempted.  Returns the column found (or NoColumn) and the
\* columns attempted in vain.
NamePass(df, ii, ci, attempted) ==
    IF ii > Len(date_indicators)
    THEN [date_column |-> NoColumn, attempted |-> attempted]
    ELSE IF ci > NCols(df)
    THEN NamePass(df, ii + 1, 1, attempted)
    ELSE LET col == df.cols[ci].name IN
         IF /\ Contains(lower(col), lower(date_indicators[ii]))
            /\ col \notin attempted
         THEN IF to_datetime_ok(df.cols[ci])
              THEN [date_column |-> col, attempted |-> attempted]
              ELSE NamePass(df, ii, ci + 1, attempted \cup {col})
         ELSE NamePass(df, ii, ci + 1, attempted)

RECURSIVE BlindPass(_, _, _)
\* Lines 116-124: every column not yet attempted, in table order.
BlindPass(df, ci, attempted) ==
    IF ci > NCols(df) THEN NoColumn
    ELSE IF df.cols[ci].name \notin attempted /\ to_datetime_ok(df.cols[ci])
    THEN df.cols[ci].name
    ELSE BlindPass(df, ci + 1, attempted)

\* A variant that tries the columns in table order whatever their names; C2
\* tells it from FindDateColumn.
FindDateColumn_BlindFirst(df) == BlindPass(df, 1, {})

\* date_column after lines 97-124.
FindDateColumn(df) ==
    LET first == NamePass(df, 1, 1, {}) IN
    IF first.date_column # NoColumn THEN first.date_column
    ELSE BlindPass(df, 1, first.attempted)

\* df after lines 97-124: the chosen column, and only it, is converted.
ConvertDateColumn(df, date_column) ==
    [df EXCEPT !.cols =
        [i \in 1..NCols(df) |->
            IF df.cols[i].name = date_column
            THEN to_datetime(df.cols[i]) ELSE df.cols[i]]]

\* Lines 127-128.
NumericColumns(df, date_column) ==
    SelectSeq(select_dtypes_number(df), LAMBDA c : c # date_column)

\* A variant that does not set the date column aside; C3 tells it from
\* CategoricalColumns.
CategoricalColumns_KeepDate(df, date_column, numeric_columns) ==
    SelectSeq(Columns(df), LAMBDA c : c \notin Range(numeric_columns))

\* Lines 135-136.
CategoricalColumns(df, date_column, numeric_columns) ==
    SelectSeq(Columns(df),
              LAMBDA c : c # date_column /\ c \notin Range(numeric_columns))

\* Series.mean(): the mean of the non-missing values.
Mean(cells) ==
    LET vals == SelectSeq(cells, LAMBDA c : ~isnull(c))
    IN  RDiv(SeqSum([i \in DOMAIN vals |-> CellRat(vals[i])]), RInt(Len(vals)))

fillna(cells, value) ==
    [i \in DOMAIN cells |-> IF isnull(cells[i]) THEN value ELSE cells[i]]

\* A variant that counts exactly half as mostly missing; C7 tells it from
\* MostlyMissing.
MostlyMissing_AtLeastHalf(cells) == 2 * CountNull(cells) >= Len(cells)

\* isnull().mean() > 0.5
MostlyMissing(cells) == 2 * CountNull(cells) > Len(cells)

\* Lines 143-154, one numeric column.
FillNumeric(cells) ==
    IF CountNull(cells) = 0 THEN cells
    ELSE IF MostlyMissing(cells) THEN fillna(cells, NumCell(RInt(0)))
    ELSE fillna(cells, NumCell(Mean(cells)))

\* A variant that fills nothing; C6 tells it from FillCategorical.
FillCategorical_Skip(col) == col

\* Lines 157-163, one categorical column.  Filling a string into a datetime
\* column leaves an object column.
FillCategorical(col) ==
    IF CountNull(col.cells) = 0 THEN col
    ELSE Column(col.name, "object", fillna(col.cells, Unknown))

\* Lines 141-163.
Impute(df, numeric_columns, categorical_columns) ==
    [df EXCEPT !.cols =
        [i \in 1..NCols(df) |->
            IF df.cols[i].name \in Range(numeric_columns)
            THEN [df.cols[i] EXCEPT !.cells = FillNumeric(@)]
            ELSE IF df.cols[i].name \in Range(categorical_columns)
            THEN FillCategorical(df.cols[i])
            ELSE df.cols[i]]]

\* Timestamps in time order.
TsLe(a, b) == a.v < b.v \/ (a.v = b.v /\ a.d <= b.d)

\* Where row x (a position of the table) may be put into the sorted sequence
\* s of positions.
Inserts(x, s, key) ==
    { SubSeq(s, 1, i) \o <<x>> \o SubSeq(s, i + 1, Len(s)) :
        i \in { i \in 0..Len(s) :
                  /\ \A j \in 1..i : TsLe(key[s[j]], key[x])
                  /\ \A j \in (i + 1)..Len(s) : TsLe(key[x], key[s[j]]) } }

RECURSIVE SortedOrders(_, _)
\* Every order of the positions `rows` that is ascending in key: argsort with
\* the default kind, quicksort, which is not stable, so rows with equal keys
\* come out in any order.
SortedOrders(rows, key) ==
    IF rows = <<>> THEN {<<>>}
    ELSE UNION { Inserts(Head(rows), s, key) : s \in SortedOrders(Tail(rows), key) }

\* The orders df.sort_values(by=date_column) can return: the rows with a date
\* ascending, then the rows with NaT in their original order.
SortOrders(df, date_column) ==
    LET key == Col(df, date_column).cells
        dated == SelectSeq([i \in 1..NRows(df) |-> i], LAMBDA i : ~isnull(key[i]))
        nat == SelectSeq([i \in 1..NRows(df) |-> i], LAMBDA i : isnull(key[i]))
    IN  { s \o nat : s \in SortedOrders(dated, key) }

\* The table with its rows taken in the order `ord` (positions).
Reorder(df, ord) ==
    [df EXCEPT !.index = [i \in 1..Len(ord) |-> df.index[ord[i]]],
               !.cols = [c \in 1..NCols(df) |->
                           [df.cols[c] EXCEPT !.cells =
                               [i \in 1..Len(ord) |-> df.cols[c].cells[ord[i]]]]]]

\* Lines 166-170.
sort_values(df, date_column) ==
    { Reorder(df, ord) : ord \in SortOrders(df, date_column) }

Processed(df, date_column, numeric_columns, categorical_columns) ==
    [df |-> df, date_column |-> date_column,
     numeric_columns |-> numeric_columns,
     categorical_columns |-> categorical_columns]

\* The results process_data(data) can return.
process_data(data) ==
    IF data.none \/ empty(data) THEN {Processed(data, NoColumn, <<>>, <<>>)}
    ELSE LET date_column == FindDateColumn(data)
             df == ConvertDateColumn(data, date_column)
             numeric_columns == NumericColumns(df, date_column)
             categorical_columns ==
                 CategoricalColumns(df, date_column, numeric_columns)
             filled == Impute(df, numeric_columns, categorical_columns)
         IN  { Processed(sorted, date_column, numeric_columns, categorical_columns) :
                 sorted \in IF date_column # NoColumn
                            THEN sort_values(filled, date_column)
                            ELSE {filled} }

\* A variant that hands the caller's own table on; C23 tells it from copy.
copy_SameTable(data) == [df |-> data, shares |-> TRUE]

\* data.copy() (line 91): a new table with the cells of data; shares tells
\* whether it is the caller's own table under another name.
copy(data) == [df |-> data, shares |-> FALSE]

\* The caller's table when process_data(data) returns: lines 104, 120, 148,
\* 150 and 159 assign columns of df, which is the copy of line 91; line 168
\* binds df to the new table that sort_values returns.
process_data_leaves(data) ==
    IF data.none \/ empty(data) THEN data
    ELSE IF copy(data).shares
    THEN LET date_column == FindDateColumn(data)
             df == ConvertDateColumn(data, date_column)
             numeric_columns == NumericColumns(df, date_column)
         IN  Impute(df, numeric_columns,
                    CategoricalColumns(df, date_column, numeric_columns))
    ELSE data

\* The positions of the rows of data that pass the test keep, in order.
Rows(data, keep(_)) == SelectSeq([i \in 1..NRows(data) |-> i], keep)

\* filter_data_by_date (lines 174-203).  Comparing a column that is not of
\* datetime type with a date raises TypeError, which line 201 catches; NaT
\* compares false.
\* A variant without the test of lines 197-199, which hands back the
\* filtered table also when it has no rows; C30 tells it from
\* filter_data_by_date.
filter_data_by_date_MayBeEmpty(data, date_column, start_date, end_date) ==
    IF data.none \/ empty(data) THEN data
    ELSE IF date_column = NoColumn \/ ~HasCol(data, date_column) THEN data
    ELSE IF Col(data, date_column).dtype # "datetime" THEN data
    ELSE LET cells == Col(data, date_column).cells
         IN  Reorder(data, Rows(data, LAMBDA i : /\ ~isnull(cells[i])
                                                  /\ TsLe(start_date, cells[i])
                                                  /\ TsLe(cells[i], end_date)))

filter_data_by_date(data, date_column, start_date, end_date) ==
    IF data.none \/ empty(data) THEN data
    ELSE IF date_column = NoColumn \/ ~HasCol(data, date_column) THEN data
    ELSE IF Col(data, date_column).dtype # "datetime" THEN data
    ELSE LET cells == Col(data, date_column).cells
             rows == Rows(data, LAMBDA i : /\ ~isnull(cells[i])
                                           /\ TsLe(start_date, cells[i])
                                           /\ TsLe(cells[i], end_date))
         IN  IF rows = <<>> THEN data ELSE Reorder(data, rows)

\* filter_data_by_category (lines 205-236); selected_categories is a list of
\* values, as a set.
filter_data_by_category(data, category_column, selected_categories) ==
    IF data.none \/ empty(data) THEN data
    ELSE IF category_column = NoColumn \/ ~HasCol(data, category_column) THEN data
    ELSE IF selected_categories = {} THEN data
    ELSE LET cells == Col(data, category_column).cells
             rows == Rows(data, LAMBDA i : cells[i] \in selected_categories)
         IN  IF rows = <<>> THEN data ELSE Reorder(data, rows)

\* ------------------------------------------------------------ input tables

\* One column of n rows as a file reader yields it: the first m cells
\* missing, the others by `kind`:
\*   "int"   numbers -1, 0, 1, ... by row (dtype number)
\*   "dates" date strings, later rows earlier days
\*   "tied"  date strings out of order, two rows on the same day
\*   "text"  strings that are no dates, two distinct values
\*   "mixed" date strings, but the last row a string that is no date
BodyCell(kind, n, i) ==
    CASE kind = "int"   -> NumCell(RInt(i - 2))
      [] kind = "dates" -> DateStr(n - i + 1)
      [] kind = "tied"  -> DateStr(IF i = n - 1 THEN 0
                                   ELSE IF i \in {n, n - 2} THEN 1 ELSE i + 5)
      [] kind = "text"  -> Text(1 + (i % 2))
      [] OTHER          -> IF i = n THEN Text(1) ELSE DateStr(i)

Body(name, kind, n, m) ==
    Column(name, IF kind = "int" THEN "number" ELSE "object",
           [i \in 1..n |-> IF i <= m THEN NA ELSE BodyCell(kind, n, i)])

RangeIndex(n) == [i \in 1..n |-> i]

ColumnPool == {ColDate, ColUpdate, ColDay, ColAmount, ColPosted}

\* The column shapes of the classification inputs: <<kind, missing cells>>
\* for a column of n rows.  All-missing columns are float columns, as a
\* file's empty column is read.
ClassShapes(n) ==
    { <<"int", 0>>, <<"int", 2>>, <<"int", n>>,
      <<"dates", 0>>, <<"dates", 1>>, <<"dates", 2>>, <<"mixed", 0>> }

\* Sequences of k distinct column names from the pool.
ColumnNames(k) ==
    { ns \in [1..k -> ColumnPool] : \A i, j \in 1..k : i # j => ns[i] # ns[j] }

\* A table of MaxRows rows whose columns have the names ns and the shapes sh.
ClassTable(ns, sh) ==
    Table(RangeIndex(MaxRows),
          [i \in DOMAIN ns |-> Body(ns[i], sh[i][1], MaxRows, sh[i][2])])

\* A table of n rows with a date, a numeric and a text column and dm, am, tm
\* missing cells in them, and a numeric column without missing cells.
ImputeTable(n, dk, dm, am, tm) ==
    Table(RangeIndex(n),
          << Body(ColDate, dk, n, dm), Body(ColAmount, "int", n, am),
             Body(ColMemo, "text", n, tm), Body(ColBalance, "int", n, 0) >>)

\* No table; a table without columns; a table with columns and no rows.
EdgeTables ==
    { NoData, Table(<<>>, <<>>),
      Table(<<>>, << Body(ColDate, "dates", 0, 0), Body(ColAmount, "int", 0, 0) >>) }

\* t is one of the input tables: a table of MaxRows rows and 1 to 3 columns
\* with distinct names from the pool and shapes of ClassShapes; or a table
\* of 1 to MaxRows rows with every count of missing cells in its numeric and
\* text columns; or an edge table.
IsInputTable(t) ==
    \/ \E k \in 1..3 : \E ns \in ColumnNames(k) :
          \E sh \in [1..k -> ClassShapes(MaxRows)] : t = ClassTable(ns, sh)
    \/ \E n \in 1..MaxRows : \E dk \in {"dates", "tied"} :
          \E dm \in {0, 1} \cap (0..n) : \E am \in 0..n : \E tm \in 0..(n - 1) :
             t = ImputeTable(n, dk, dm, am, tm)
    \/ t \in EdgeTables

\* ------------------------------------------------------- ai_predictions.py

ColRevenue == <<"r","e","v","e","n","u","e">>
ColCost == <<"c","o","s","t">>
ColUnits == <<"u","n","i","t","s">>

\* The rows both predictors require (lines 29 and 161).
MinDataPoints == 10

RSeq(cells) == [i \in DOMAIN cells |-> CellRat(cells[i])]
RSq(a) == RMul(a, a)
RMean(rs) == RDiv(SeqSum(rs), RInt(Len(rs)))

\* LinearRegression().fit(x, y) on one feature: coef_[0] and intercept_.  A
\* constant x gives coefficient 0 (the least-squares solution of least norm).
LinearRegression(xs, ys) ==
    LET n == RInt(Len(xs))
        Sx == SeqSum(xs)
        Sy == SeqSum(ys)
        Sxy == SeqSum([i \in DOMAIN xs |-> RMul(xs[i], ys[i])])
        Sxx == SeqSum([i \in DOMAIN xs |-> RSq(xs[i])])
        B == RSub(RMul(n, Sxx), RSq(Sx))
        coef == IF B.n = 0 THEN RInt(0)
                ELSE RDiv(RSub(RMul(n, Sxy), RMul(Sx, Sy)), B)
    IN  [coef |-> coef, intercept |-> RDiv(RSub(Sy, RMul(coef, Sx)), n)]

\* np.std(v) squared: the population variance.
Variance(rs) ==
    LET m == RMean(rs)
    IN  RMean([i \in DOMAIN rs |-> RSq(RSub(rs[i], m))])

\* (b - a).days for Timestamps.
DaysBetween(a, b) == (b.v - a.v) + (IF b.d - a.d < 0 THEN -1 ELSE 0)

TsMin(cells) ==
    CHOOSE c \in Range(cells) : ~isnull(c) /\ \A o \in Range(cells) : isnull(o) \/ TsLe(c, o)
\* A variant that forecasts from the first date on; C22 tells it from TsMax.
TsMax_AsMin(cells) == TsMin(cells)

TsMax(cells) ==
    CHOOSE c \in Range(cells) : ~isnull(c) /\ \A o \in Range(cells) : isnull(o) \/ TsLe(o, c)

\* A variant that hands the error back as a returned result; C10 tells it
\* from Raised.
Raised_AsResult(type, message) ==
    [raised |-> FALSE, error |-> type, message |-> message,
     average_prediction |-> RInt(0), percent_change |-> RInt(0),
     trend_description |-> "", confidence_interval_sq |-> RInt(0)]

\* An exception leaving predict_future_values, by its type and message.
Raised(type, message) ==
    [raised |-> TRUE, error |-> type, message |-> message,
     average_prediction |-> RInt(0), percent_change |-> RInt(0),
     trend_description |-> "", confidence_interval_sq |-> RInt(0)]

\* The keys of the dict returned at lines 140-145, whatever the values.
ForecastKeys ==
    {"average_prediction", "trend_description", "percent_change", "confidence_interval"}

\* A variant whose strong labels start at 5 and -5 themselves; C15 tells it
\* from TrendDescription.
TrendDescription_Inclusive(percent_change) ==
    IF RLe(RInt(5), percent_change) THEN "Strong upward trend"
    ELSE IF RLt(RInt(0), percent_change) THEN "Slight upward trend"
    ELSE IF RLe(percent_change, RInt(-5)) THEN "Strong downward trend"
    ELSE IF RLt(percent_change, RInt(0)) THEN "Slight downward trend"
    ELSE "Stable trend"

\* Lines 128-137, the description by its leading words.
TrendDescription(percent_change) ==
    IF RLt(RInt(5), percent_change) THEN "Strong upward trend"
    ELSE IF RLt(RInt(0), percent_change) THEN "Slight upward trend"
    ELSE IF RLt(percent_change, RInt(-5)) THEN "Strong downward trend"
    ELSE IF RLt(percent_change, RInt(0)) THEN "Slight downward trend"
    ELSE "Stable trend"

\* Lines 25-147 on the table sorted by date.  A missing date or value reaches
\* the regression as NaN, which LinearRegression.fit refuses with a
\* ValueError of its own.  confidence_interval is kept by its square,
\* 4 * variance of the residuals.
PredictSorted(data, date_column, value_column, days_to_predict) ==
    LET dates == Col(data, date_column).cells
        values == Col(data, value_column).cells
    IN  IF Len(values) < MinDataPoints
        THEN Raised("ValueError", "Not enough data points for reliable prediction")
        ELSE IF \E i \in DOMAIN dates : isnull(dates[i]) \/ isnull(values[i])
        THEN Raised("ValueError", "Input contains NaN")
        ELSE
        LET first_date == TsMin(dates)
            X == [i \in DOMAIN dates |-> RInt(DaysBetween(first_date, dates[i]))]
            y == RSeq(values)
            model == LinearRegression(X, y)
            last == DaysBetween(first_date, TsMax(dates))
            y_future == [i \in 1..days_to_predict |->
                            RAdd(model.intercept, RMul(model.coef, RInt(last + i)))]
            residuals == [i \in DOMAIN y |->
                            RSub(y[i], RAdd(model.intercept, RMul(model.coef, X[i])))]
            average_prediction == RMean(y_future)
            last_value == y[Len(y)]
            change == RSub(average_prediction, last_value)
            percent_change == IF last_value.n # 0
                              THEN RMul(RDiv(change, last_value), RInt(100))
                              ELSE RInt(0)
        IN  [raised |-> FALSE, error |-> "", message |-> "",
             average_prediction |-> average_prediction,
             percent_change |-> percent_change,
             trend_description |-> TrendDescription(percent_change),
             confidence_interval_sq |-> RMul(RInt(4), Variance(residuals))]

\* predict_future_values (lines 8-147): line 22 sorts by date first.
predict_future_values(data, date_column, value_column, days_to_predict) ==
    { PredictSorted(sorted, date_column, value_column, days_to_predict) :
        sorted \in sort_values(data, date_column) }

revenue_keywords ==
    << <<"r","e","v","e","n","u","e">>, <<"i","n","c","o","m","e">>,
       <<"s","a","l","e","s">> >>
expense_keywords ==
    << <<"e","x","p","e","n","s","e">>, <<"c","o","s","t">>,
       <<"s","p","e","n","d">> >>

MatchesAny(col, keywords) ==
    \E k \in DOMAIN keywords : Contains(lower(col), keywords[k])

\* The rational whose square is r; the inputs are drawn so that every
\* standard deviation taken is rational.
ExactSqrt(r) ==
    [n |-> CHOOSE i \in 0..r.n : i * i = r.n, d |-> CHOOSE i \in 1..r.d : i * i = r.d]

\* The slope of the values over the row index 0, 1, ... (lines 181-183).
Trend(rs) == LinearRegression([i \in DOMAIN rs |-> RInt(i - 1)], rs).coef

\* Lines 186-190 and 206-210.
NormalizedTrend(rs) ==
    IF RMean(rs).n # 0 THEN RDiv(Trend(rs), RMean(rs)) ELSE RInt(0)

\* Lines 221-231.
ProfitMargins(revenue, expense) ==
    [i \in DOMAIN revenue |->
        IF revenue[i].n # 0
        THEN RDiv(RSub(revenue[i], expense[i]), revenue[i]) ELSE RInt(0)]

\* np.clip(f, -1, 1)
Clip(f) == IF RLt(f, RInt(-1)) THEN RInt(-1) ELSE IF RLt(RInt(1), f) THEN RInt(1) ELSE f

\* int(x) for x >= 0; max(0, min(100, .)).
IntOf(x) == x.n \div x.d
Clamp(i) == IF i < 0 THEN 0 ELSE IF i > 100 THEN 100 ELSE i

\* Lines 276-285, the description by its leading words.
HealthDescription(health_score) ==
    IF health_score >= 80 THEN "Excellent financial health"
    ELSE IF health_score >= 60 THEN "Good financial health"
    ELSE IF health_score >= 40 THEN "Moderate financial health"
    ELSE IF health_score >= 20 THEN "Concerning financial health"
    ELSE "Poor financial health"

ContributionNames == <<"Revenue Trend", "Expense Trend", "Profit Margin Trend", "Volatility">>

NoScore(raised, error, description) ==
    [raised |-> raised, error |-> error, has_score |-> FALSE, health_score |-> 0,
     description |-> description, feature_contributions |-> <<>>]

\* A variant that applies the importances as they are; C19 tells it from
\* Weights.
Weights_AsGiven(feature_importances) == feature_importances

\* Lines 262-263: the importances over their sum.
Weights(feature_importances) ==
    [i \in DOMAIN feature_importances |->
        RDiv(feature_importances[i], SeqSum(feature_importances))]

\* Lines 267 and 269: features * feature_importances, the features clipped.
Contributions(features, feature_importances) ==
    [i \in DOMAIN features |->
        RMul(Clip(features[i]), Weights(feature_importances)[i])]

\* A variant that rounds to the nearest integer; C18 tells it from
\* HealthScore.
HealthScore_Rounded(weighted_score) ==
    LET x == RAdd(RMul(RAdd(weighted_score, RInt(1)), RInt(50)), Rat(1, 2))
    IN  Clamp(x.n \div x.d)

\* A variant that scales the composite without moving it to 0..2 first; C21
\* tells it from HealthScore.
HealthScore_NoOffset(weighted_score) ==
    Clamp(IntOf(RMul(weighted_score, RInt(50))))

\* Lines 272-273.
HealthScore(weighted_score) ==
    Clamp(IntOf(RMul(RAdd(weighted_score, RInt(1)), RInt(50))))

\* Lines 262-292: the result for features that number one or more.
HealthResult(features, feature_importances) ==
    LET contributions == Contributions(features, feature_importances)
        weighted_score == SeqSum(contributions)
        health_score == HealthScore(weighted_score)
    IN  [raised |-> FALSE, error |-> "", has_score |-> TRUE,
         health_score |-> health_score,
         description |-> HealthDescription(health_score),
         feature_contributions |->
             [i \in DOMAIN features |->
                 [name |-> ContributionNames[i], value |-> contributions[i]]]]

\* A variant that scores no feature at all as the middle of the scale; C16
\* tells it from ScoreFeatures.
ScoreFeatures_NeutralWhenEmpty(features, feature_importances) ==
    IF features = <<>>
    THEN [raised |-> FALSE, error |-> "", has_score |-> TRUE, health_score |-> 50,
          description |-> HealthDescription(50), feature_contributions |-> <<>>]
    ELSE HealthResult(features, feature_importances)

\* Lines 255-292.
ScoreFeatures(features, feature_importances) ==
    IF features = <<>>
    THEN NoScore(FALSE, "", "Insufficient financial data for health prediction")
    ELSE HealthResult(features, feature_importances)

\* predict_financial_health (lines 149-292), in exact arithmetic.  A missing
\* value in a column it reads reaches LinearRegression.fit or int() as NaN,
\* and both raise ValueError.
predict_financial_health(data, numeric_columns) ==
    IF NRows(data) < MinDataPoints
    THEN NoScore(FALSE, "", "Not enough data for financial health prediction")
    ELSE
    LET revenue_cols == SelectSeq(numeric_columns, LAMBDA c : MatchesAny(c, revenue_keywords))
        expense_cols == SelectSeq(numeric_columns, LAMBDA c : MatchesAny(c, expense_keywords))
        other_cols == SelectSeq(numeric_columns,
                          LAMBDA c : c \notin Range(revenue_cols \o expense_cols))
        read_cols == {revenue_cols[i] : i \in {1} \cap DOMAIN revenue_cols}
                     \cup {expense_cols[i] : i \in {1} \cap DOMAIN expense_cols}
                     \cup Range(other_cols)
    IN  IF \E c \in read_cols : CountNull(Col(data, c).cells) > 0
        THEN NoScore(TRUE, "ValueError", "")
        ELSE
        LET revenue == IF revenue_cols # <<>> THEN RSeq(Col(data, revenue_cols[1]).cells) ELSE <<>>
            expense == IF expense_cols # <<>> THEN RSeq(Col(data, expense_cols[1]).cells) ELSE <<>>
            volatile == SelectSeq(other_cols,
                            LAMBDA c : RMean(RSeq(Col(data, c).cells)).n # 0)
            volatility_scores ==
                [i \in DOMAIN volatile |->
                    LET v == RSeq(Col(data, volatile[i]).cells)
                    IN  RDiv(ExactSqrt(Variance(v)), RMean(v))]
            features ==
                (IF revenue_cols # <<>> THEN <<NormalizedTrend(revenue)>> ELSE <<>>)
                \o (IF expense_cols # <<>>
                    THEN <<RSub(RInt(0), NormalizedTrend(expense))>> ELSE <<>>)
                \o (IF revenue_cols # <<>> /\ expense_cols # <<>>
                    THEN <<RMul(Trend(ProfitMargins(revenue, expense)), RInt(100))>>
                    ELSE <<>>)
                \o (IF volatile # <<>>
                    THEN <<RSub(RInt(0), RMean(volatility_scores))>> ELSE <<>>)
            feature_importances ==
                (IF revenue_cols # <<>> THEN <<Rat(4, 10)>> ELSE <<>>)
                \o (IF expense_cols # <<>> THEN <<Rat(3, 10)>> ELSE <<>>)
                \o (IF revenue_cols # <<>> /\ expense_cols # <<>>
                    THEN <<Rat(3, 10)>> ELSE <<>>)
                \o (IF volatile # <<>> THEN <<Rat(1, 10)>> ELSE <<>>)
        IN  ScoreFeatures(features, feature_importances)

\* --------------------------------------------------- financial_analysis.py

\* A variant that keeps the missing values, as 0; C12 tells it from dropna.
dropna_KeepAll(cells) == RSeq(cells)

\* Series.dropna() as the values left, in order.
dropna(cells) == RSeq(SelectSeq(cells, LAMBDA c : ~isnull(c)))

\* Series.std() squared: the sample variance (ddof = 1), of 2 values or more.
SampleVariance(rs) ==
    LET m == RMean(rs)
    IN  RDiv(SeqSum([i \in DOMAIN rs |-> RSq(RSub(rs[i], m))]), RInt(Len(rs) - 1))

\* The key of a metric: its label and the column it is about (none for the
\* keyword aggregates), for f"Avg {col}", f"{col} Change %", "Total Revenue".
Key(label, col) == <<label, col>>

\* A dict as the set of its items.
Item(key, value) == [key |-> key, value |-> value]
Keys(d) == {it.key : it \in d}
Get(d, key) == (CHOOSE it \in d : it.key = key).value

\* A variant that asks for the 10 rows the predictors ask for; C17 tells it
\* from ColumnMetrics.
ColumnMetrics_NeedsTenRows(data, col) ==
    IF NRows(data) < MinDataPoints THEN {}
    ELSE {Item(Key("Avg", col), RMean(RSeq(SelectSeq(Col(data, col).cells,
                                                      LAMBDA c : ~isnull(c)))))}

\* Lines 55-71 for one column.  "Volatility" is kept by its square, the
\* sample variance.
ColumnMetrics(data, col) ==
    LET col_data == dropna(Col(data, col).cells)
    IN  (IF Len(col_data) > 0
         THEN {Item(Key("Avg", col), RMean(col_data))} ELSE {})
        \cup
        (IF Len(col_data) > 1 /\ col_data[1].n # 0
         THEN {Item(Key("Change %", col),
                    RMul(RDiv(RSub(col_data[Len(col_data)], col_data[1]), col_data[1]),
                         RInt(100)))}
         ELSE {})
        \cup
        (IF Len(col_data) > 2
         THEN {Item(Key("Volatility", col), SampleVariance(col_data))} ELSE {})

asset_keywords == << <<"a","s","s","e","t">> >>
liability_keywords == << <<"l","i","a","b">>, <<"d","e","b","t">> >>
investment_keywords == << <<"i","n","v","e","s","t">> >>
return_keywords == << <<"r","e","t","u","r","n">>, <<"r","o","i">> >>

\* A variant that takes the values of every column that matches; C13 tells it
\* from FirstMatch.
RECURSIVE FirstMatch_AllMatches(_, _, _)
FirstMatch_AllMatches(data, numeric_columns, keywords) ==
    IF numeric_columns = <<>> THEN <<>>
    ELSE (IF MatchesAny(Head(numeric_columns), keywords)
          THEN RSeq(SelectSeq(Col(data, Head(numeric_columns)).cells,
                              LAMBDA c : ~isnull(c)))
          ELSE <<>>)
         \o FirstMatch_AllMatches(data, Tail(numeric_columns), keywords)

\* Lines 75-88 and 97-110: the first column that matches, if it has values.
FirstMatch(data, numeric_columns, keywords) ==
    LET cols == SelectSeq(numeric_columns, LAMBDA c : MatchesAny(c, keywords))
    IN  IF cols = <<>> THEN <<>> ELSE dropna(Col(data, cols[1]).cells)

\* A variant that skips the profit too when the revenue is 0; C14 tells it
\* from ProfitMetrics.
ProfitMetrics_SkipBoth(metrics) ==
    IF {Key("Total Revenue", <<>>), Key("Total Expenses", <<>>)} \subseteq Keys(metrics)
          /\ Get(metrics, Key("Total Revenue", <<>>)).n # 0
    THEN LET net_profit == RSub(Get(metrics, Key("Total Revenue", <<>>)),
                                Get(metrics, Key("Total Expenses", <<>>)))
         IN  {Item(Key("Net Profit", <<>>), net_profit),
              Item(Key("Profit Margin %", <<>>),
                   RMul(RDiv(net_profit, Get(metrics, Key("Total Revenue", <<>>))),
                        RInt(100)))}
    ELSE {}

\* Lines 91-94, on the metrics gathered before them.
ProfitMetrics(metrics) ==
    IF {Key("Total Revenue", <<>>), Key("Total Expenses", <<>>)} \subseteq Keys(metrics)
    THEN LET net_profit == RSub(Get(metrics, Key("Total Revenue", <<>>)),
                                Get(metrics, Key("Total Expenses", <<>>)))
         IN  {Item(Key("Net Profit", <<>>), net_profit)}
             \cup (IF Get(metrics, Key("Total Revenue", <<>>)).n # 0
                   THEN {Item(Key("Profit Margin %", <<>>),
                              RMul(RDiv(net_profit,
                                        Get(metrics, Key("Total Revenue", <<>>))),
                                   RInt(100)))}
                   ELSE {})
    ELSE {}

\* calculate_financial_metrics (lines 36-123).
calculate_financial_metrics(data, numeric_columns) ==
    IF data.none \/ NRows(data) = 0 \/ numeric_columns = <<>> THEN {}
    ELSE
    LET revenue_data == FirstMatch(data, numeric_columns, revenue_keywords)
        expense_data == FirstMatch(data, numeric_columns, expense_keywords)
        asset_data == FirstMatch(data, numeric_columns, asset_keywords)
        liability_data == FirstMatch(data, numeric_columns, liability_keywords)
        investment_data == FirstMatch(data, numeric_columns, investment_keywords)
        return_data == FirstMatch(data, numeric_columns, return_keywords)
        totals ==
            (IF revenue_data # <<>>
             THEN {Item(Key("Total Revenue", <<>>), SeqSum(revenue_data))} ELSE {})
            \cup (IF expense_data # <<>>
                  THEN {Item(Key("Total Expenses", <<>>), SeqSum(expense_data))} ELSE {})
    IN  UNION {ColumnMetrics(data, numeric_columns[i]) : i \in DOMAIN numeric_columns}
        \cup totals
        \cup ProfitMetrics(totals)
        \cup (IF asset_data # <<>>
              THEN {Item(Key("Total Assets", <<>>), RMean(asset_data))} ELSE {})
        \cup (IF liability_data # <<>>
              THEN {Item(Key("Total Liabilities", <<>>), RMean(liability_data))} ELSE {})
        \cup (IF /\ investment_data # <<>> /\ return_data # <<>>
                 /\ RMean(investment_data).n # 0
              THEN {Item(Key("ROI %", <<>>),
                         RMul(RDiv(RMean(return_data), RMean(investment_data)), RInt(100)))}
              ELSE {})

\* Lines 161-175.
TrendLabel(change_pct) ==
    IF RLt(RInt(5), change_pct) THEN "Increasing"
    ELSE IF RLt(RInt(0), change_pct) THEN "Slightly Increasing"
    ELSE IF RLt(change_pct, RInt(-5)) THEN "Decreasing"
    ELSE IF RLt(change_pct, RInt(0)) THEN "Slightly Decreasing"
    ELSE "Stable"

\* Lines 178-188: std / mean against 0.2 and 0.1, compared by squares; a
\* negative mean gives a negative ratio.
VolatilityLabel(series) ==
    LET m == RMean(series)
        ratio_sq == RDiv(SampleVariance(series), RSq(m))
    IN  IF Len(series) <= 2 THEN ""
        ELSE IF m.n <= 0 THEN "Low volatility"
        ELSE IF RLt(Rat(4, 100), ratio_sq) THEN "High volatility"
        ELSE IF RLt(Rat(1, 100), ratio_sq) THEN "Moderate volatility"
        ELSE "Low volatility"

\* The keys of the dict returned at lines 144-148 and 190-194.
TrendKeys == {"trend", "description", "change_pct"}

NoTrend ==
    [column |-> NoColumn, trend |-> "not_run", volatility |-> "", change_pct |-> RInt(0)]

\* Lines 140-194 on the table sorted by date; column is the value_column
\* asked for.
AnalyzeSorted(data, value_column) ==
    LET series == dropna(Col(data, value_column).cells)
    IN  IF Len(series) < 2
        THEN [column |-> value_column, trend |-> "Unknown", volatility |-> "",
              change_pct |-> RInt(0)]
        ELSE
        LET first_value == series[1]
            last_value == series[Len(series)]
            change_pct == IF first_value.n # 0
                          THEN RMul(RDiv(RSub(last_value, first_value), first_value),
                                    RInt(100))
                          ELSE RInt(0)
        IN  [column |-> value_column, trend |-> TrendLabel(change_pct),
             volatility |-> VolatilityLabel(series),
             change_pct |-> change_pct]

\* analyze_trends (lines 125-194): line 138 sorts by date first.
analyze_trends(data, date_column, value_column) ==
    { AnalyzeSorted(sorted, value_column) : sorted \in sort_values(data, date_column) }

\* ------------------------------------------------------------------- state

VARIABLES
    \* The pipeline on one table: the table given, what
    \* validate_financial_data returned for it, what process_data returned
    \* for it, and what process_data returned for that result's table.
    input, verdict, result, result2, pc,
    \* One call of a filter on the table process_data returned: the function
    \* called, its arguments and the table it returned.
    filtering,
    \* One browser session of app.py: st.session_state, the rows of the users
    \* table of auth.py, and what the last script run displayed.
    session_state, users, shown,
    \* The users.db file of auth.py (its rows are in users) and the
    \* register_user calls in progress, one per concurrent session.
    store, calls,
    \* The register_user and login_user calls made one after another: the
    \* registrations that returned success, and the last call with what it
    \* returned.
    auth,
    \* The predictors on one table: the table and arguments given, what
    \* predict_future_values did, what predict_financial_health did, and
    \* what calculate_financial_metrics and analyze_trends returned for it.
    history, request, prediction, health, ppc, metrics, trend

pipelineVars == <<input, verdict, result, result2, pc, filtering>>
sessionVars == <<session_state, users, shown, store, calls, auth>>
predictVars == <<history, request, prediction, health, ppc, metrics, trend>>
vars == <<input, verdict, result, result2, pc, filtering, session_state, users, shown,
          store, calls, auth,
          history, request, prediction, health, ppc, metrics, trend>>

NoVerdict == Verdict(FALSE, "not_run", NoColumn, <<>>)
NoResult == Processed(NoData, NoColumn, <<>>, <<>>)

NoFiltering ==
    [function |-> "not_run", column |-> NoColumn, start_date |-> NA, end_date |-> NA,
     selected_categories |-> {}, returned |-> NoData]

PipelineIdle ==
    /\ input = NoData
    /\ verdict = NoVerdict
    /\ result = NoResult
    /\ result2 = NoResult
    /\ pc = "idle"
    /\ filtering = NoFiltering

Display(kind, text, detail) == [kind |-> kind, text |-> text, detail |-> detail]
NoUser == [id |-> 0, username |-> "", email |-> ""]

\* Lines 23-39 of app.py.
InitialSession ==
    [logged_in |-> FALSE, user_info |-> NoUser, data |-> NoData,
     filtered_data |-> NoData, columns |-> <<>>, date_column |-> NoColumn,
     numeric_columns |-> <<>>, categorical_columns |-> <<>>]

\* Concurrent sessions calling register_user.
NSessions == 2
Sessions == 1..NSessions

\* users.db before the first call: no file, no table, nobody writing.
NoStore == [exists |-> FALSE, table |-> FALSE, writer |-> 0]

NoReturn == [ok |-> FALSE, message |-> "pending"]
NoCall == [at |-> "idle", username |-> "", email |-> "", password |-> "",
           returned |-> NoReturn]

NoAuth ==
    [registered |-> {},
     call |-> [function |-> "none", username |-> "", email |-> "", password |-> "",
               returned |-> [ok |-> FALSE, message |-> "", user_data |-> NoUser],
               before |-> <<>>]]

SessionIdle ==
    /\ session_state = InitialSession
    /\ users = <<>>
    /\ shown = Display("none", "", "")
    /\ store = NoStore
    /\ calls = [s \in Sessions |-> NoCall]
    /\ auth = NoAuth

NoRequest == [date_column |-> NoColumn, value_column |-> NoColumn, days_to_predict |-> 0]
NoPrediction == Raised("not_run", "")
NoHealth == NoScore(FALSE, "not_run", "")

PredictIdle ==
    /\ history = NoData
    /\ request = NoRequest
    /\ prediction = NoPrediction
    /\ health = NoHealth
    /\ ppc = "idle"
    /\ metrics = {}
    /\ trend = NoTrend

\* ------------------------------------------------ the pipeline on one table

PipelineInit ==
    /\ IsInputTable(input)
    /\ verdict = NoVerdict
    /\ result = NoResult
    /\ result2 = NoResult
    /\ pc = "given"
    /\ filtering = NoFiltering
    /\ SessionIdle
    /\ PredictIdle

Validate ==
    /\ pc = "given"
    /\ verdict' = validate_financial_data(input)
    /\ pc' = "validated"
    /\ UNCHANGED <<input, result, result2, filtering>>
    /\ UNCHANGED sessionVars
    /\ UNCHANGED predictVars

Process ==
    /\ pc = "validated"
    /\ result' \in process_data(input)
    /\ input' = process_data_leaves(input)
    /\ pc' = "processed"
    /\ UNCHANGED <<verdict, result2, filtering>>
    /\ UNCHANGED sessionVars
    /\ UNCHANGED predictVars

ProcessAgain ==
    /\ pc = "processed"
    /\ result2' \in process_data(result.df)
    /\ result' = [result EXCEPT !.df = process_data_leaves(result.df)]
    /\ pc' = "processed_twice"
    /\ UNCHANGED <<input, verdict, filtering>>
    /\ UNCHANGED sessionVars
    /\ UNCHANGED predictVars

PipelineNext == Validate \/ Process \/ ProcessAgain

PipelineSpec == PipelineInit /\ [][PipelineNext]_vars

\* One call of filter_data_by_date on the table process_data returned.
FilterByDate(date_column, start_date, end_date) ==
    /\ pc = "processed"
    /\ filtering' =
          [function |-> "filter_data_by_date", column |-> date_column,
           start_date |-> start_date, end_date |-> end_date,
           selected_categories |-> {},
           returned |-> filter_data_by_date(result.df, date_column,
                                            start_date, end_date)]
    /\ pc' = "filtered"
    /\ UNCHANGED <<input, verdict, result, result2>>
    /\ UNCHANGED sessionVars
    /\ UNCHANGED predictVars

\* One call of filter_data_by_category on the table process_data returned.
FilterByCategory(category_column, selected_categories) ==
    /\ pc = "processed"
    /\ filtering' =
          [function |-> "filter_data_by_category", column |-> category_column,
           start_date |-> NA, end_date |-> NA,
           selected_categories |-> selected_categories,
           returned |-> filter_data_by_category(result.df, category_column,
                                                selected_categories)]
    /\ pc' = "filtered"
    /\ UNCHANGED <<input, verdict, result, result2>>
    /\ UNCHANGED sessionVars
    /\ UNCHANGED predictVars

\* ---------------------------------------------- the predictors on one table

\* Rows of the tables drawn as inputs of the predictors; the tables have
\* MaxPredRows - 3 .. MaxPredRows rows, on both sides of the required 10.
MaxPredRows == 11

\* Whether k rows of one value and n - k of another have a rational standard
\* deviation, and the least such k (0 if none).
IsSquare(m) == \E i \in 0..m : i * i = m
SquareSplit(n) ==
    IF \E k \in 1..(n - 1) : IsSquare(k * (n - k))
    THEN CHOOSE k \in 1..(n - 1) :
             /\ IsSquare(k * (n - k))
             /\ \A j \in 1..(k - 1) : ~IsSquare(j * (n - j))
    ELSE 0

\* The value of a column on the row of day number day, of n, by its shape.
ValueCell(shape, n, day) ==
    CASE shape = "flat"    -> NumCell(RInt(4))
      [] shape = "rising"  -> NumCell(RInt(IF 2 * day <= n THEN 2 ELSE 4))
      [] shape = "falling" -> NumCell(RInt(IF 2 * day <= n THEN 4 ELSE 2))
      [] shape = "linear"  -> NumCell(RInt(100 + 2 * day))
      [] shape = "slow"    -> NumCell(RInt(70 + day))
      [] shape = "ebbing"  -> NumCell(RInt(91 - day))
      [] shape = "zero"    -> NumCell(RInt(0))
      [] shape = "from0"   -> NumCell(RInt(day - 1))
      [] shape = "to0"     -> NumCell(RInt(n - day))
      [] shape = "gap"     -> IF day = n THEN NA ELSE NumCell(RInt(4))
      [] OTHER             -> NumCell(RInt(IF day <= SquareSplit(n) THEN 6 ELSE 2))

RevenueShapes ==
    {"none", "flat", "rising", "falling", "linear", "slow", "ebbing", "zero", "gap",
     "from0", "to0"}
CostShapes == {"none", "flat", "rising", "falling"}
UnitsShapes == {"none", "flat", "zero", "split", "gap"}

\* A table of n rows with a datetime column "Date" (one day per row, rising
\* or falling down the table, its first nat rows NaT) and the float columns
\* "revenue", "cost", "units" that have a shape.  The revenues with one value
\* per day ("linear", "slow", "ebbing", "from0", "to0") come without a cost
\* column: their profit margins have many denominators, and their exact sums
\* do not fit 32-bit integers.
PredictTable(n, rising, nat, revenue, cost, units) ==
    LET day(i) == IF rising THEN i ELSE n - i + 1
        values(name, shape) ==
            IF shape = "none" THEN <<>>
            ELSE <<Column(name, "float", [i \in 1..n |-> ValueCell(shape, n, day(i))])>>
    IN  Table(RangeIndex(n),
              <<Column(ColDate, "datetime",
                       [i \in 1..n |-> IF i <= nat THEN NA ELSE Timestamp(day(i), 0)])>>
              \o values(ColRevenue, revenue) \o values(ColCost, cost)
              \o values(ColUnits, units))

IsPredictTable(t) ==
    \E n \in (MaxPredRows - 3)..MaxPredRows, rising \in BOOLEAN, nat \in 0..2,
       revenue \in RevenueShapes, cost \in CostShapes, units \in UnitsShapes :
        /\ revenue \in {"linear", "slow", "ebbing", "from0", "to0"} => cost = "none"
        /\ t = PredictTable(n, rising, nat, revenue, cost, units)

\* The slider of app.py (lines 323-329) offers 7, 14, ... days.
Horizons == {7, 28}

PredictInit ==
    /\ IsPredictTable(history)
    /\ request = NoRequest
    /\ prediction = NoPrediction
    /\ health = NoHealth
    /\ ppc = "given"
    /\ metrics = {}
    /\ trend = NoTrend
    /\ PipelineIdle
    /\ SessionIdle

\* One call of predict_future_values; an exception it raises is the outcome.
Predict(value_column, days_to_predict) ==
    /\ ppc = "given"
    /\ HasCol(history, value_column)
    /\ request' = [date_column |-> ColDate, value_column |-> value_column,
                   days_to_predict |-> days_to_predict]
    /\ prediction' \in predict_future_values(history, ColDate, value_column,
                                             days_to_predict)
    /\ ppc' = "predicted"
    /\ UNCHANGED <<history, health, metrics, trend>>
    /\ UNCHANGED pipelineVars
    /\ UNCHANGED sessionVars

\* One call of predict_financial_health with the table's float columns.
Health ==
    /\ ppc \in {"given", "predicted"}
    /\ health' = predict_financial_health(history,
                     SelectSeq(Columns(history), LAMBDA c : c # ColDate))
    /\ ppc' = "scored"
    /\ UNCHANGED <<history, request, prediction, metrics, trend>>
    /\ UNCHANGED pipelineVars
    /\ UNCHANGED sessionVars

\* One call of calculate_financial_metrics with the table's float columns.
Metrics ==
    /\ ppc \in {"scored", "loaded"}
    /\ metrics' = calculate_financial_metrics(history,
                      SelectSeq(Columns(history), LAMBDA c : c # ColDate))
    /\ ppc' = "measured"
    /\ UNCHANGED <<history, request, prediction, health, trend>>
    /\ UNCHANGED pipelineVars
    /\ UNCHANGED sessionVars

\* One call of analyze_trends, on the column the forecast was asked for if
\* one was.
Analyze(value_column) ==
    /\ ppc = "measured"
    /\ HasCol(history, value_column)
    /\ request # NoRequest => value_column = request.value_column
    /\ trend' \in analyze_trends(history, ColDate, value_column)
    /\ ppc' = "analyzed"
    /\ UNCHANGED <<history, request, prediction, health, metrics>>
    /\ UNCHANGED pipelineVars
    /\ UNCHANGED sessionVars

PredictNext ==
    \/ \E value_column \in {ColRevenue, ColCost, ColUnits}, days_to_predict \in Horizons :
           Predict(value_column, days_to_predict)
    \/ Health
    \/ Metrics
    \/ \E value_column \in {ColRevenue, ColCost, ColUnits} : Analyze(value_column)

PredictSpec == PredictInit /\ [][PredictNext]_vars

\* -------------------------------------------- the metrics on one small table

\* Rows of the tables drawn as inputs of calculate_financial_metrics and
\* analyze_trends alone.
MaxMetricRows == 4

ColSales == <<"S","a","l","e","s">>
ColSpend == <<"s","p","e","n","d">>

\* The value of a column on the row of day number day, by its pattern.
MetricCell(pattern, day) ==
    CASE pattern = "flat"  -> NumCell(RInt(4))
      [] pattern = "zero"  -> NumCell(RInt(0))
      [] pattern = "from0" -> NumCell(RInt(day - 1))
      [] OTHER             -> NumCell(RInt(3 * day))

\* No column, or a pattern with its first m cells (in table order) missing.
MetricShapes(n) ==
    {<<"none", 0>>} \cup ({"flat", "zero", "from0", "step"} \X (0..n))

\* A table of n rows with a datetime column "Date" (one day per row, rising
\* or falling down the table) and float columns by their shapes.
MetricTable(n, rising, shapes) ==
    LET day(i) == IF rising THEN i ELSE n - i + 1
        names == <<ColRevenue, ColSales, ColCost, ColSpend>>
        values(k) ==
            IF shapes[k][1] = "none" THEN <<>>
            ELSE <<Column(names[k], "float",
                          [i \in 1..n |-> IF i <= shapes[k][2] THEN NA
                                          ELSE MetricCell(shapes[k][1], day(i))])>>
    IN  Table(RangeIndex(n),
              <<Column(ColDate, "datetime", [i \in 1..n |-> Timestamp(day(i), 0)])>>
              \o values(1) \o values(2) \o values(3) \o values(4))

IsMetricTable(t) ==
    \E rising \in BOOLEAN, revenue \in MetricShapes(MaxMetricRows),
       cost \in MetricShapes(MaxMetricRows),
       sales \in {<<"none", 0>>, <<"step", 0>>}, spend \in {<<"none", 0>>, <<"step", 1>>} :
        t = MetricTable(MaxMetricRows, rising, <<revenue, sales, cost, spend>>)

MetricsInit ==
    /\ IsMetricTable(history)
    /\ request = NoRequest
    /\ prediction = NoPrediction
    /\ health = NoHealth
    /\ ppc = "loaded"
    /\ metrics = {}
    /\ trend = NoTrend
    /\ PipelineIdle
    /\ SessionIdle

MetricsNext ==
    \/ Metrics
    \/ \E value_column \in {ColRevenue, ColSales, ColCost, ColSpend} : Analyze(value_column)

MetricsSpec == MetricsInit /\ [][MetricsNext]_vars

\* ------------------------------------- the predictors on a revenue table

\* Rows of the tables with a revenue that is constant or grows by the day;
\* the tables have MinDataPoints .. MaxScenarioRows rows.
MaxScenarioRows == 15

ColExpense == <<"e","x","p","e","n","s","e">>

\* A table of n rows with a datetime column "Date" (one day per row, rising
\* or falling down the table), a float column "revenue" = base, base + step,
\* ... by date, and a float column "expense" that is constant, unless it is
\* left out (expense < 0).
ScenarioTable(n, rising, base, step, expense) ==
    LET day(i) == IF rising THEN i ELSE n - i + 1
    IN  Table(RangeIndex(n),
              <<Column(ColDate, "datetime", [i \in 1..n |-> Timestamp(day(i), 0)]),
                Column(ColRevenue, "float",
                       [i \in 1..n |-> NumCell(RInt(base + step * (day(i) - 1)))])>>
              \o (IF expense < 0 THEN <<>>
                  ELSE <<Column(ColExpense, "float",
                                [i \in 1..n |-> NumCell(RInt(expense))])>>))

\* A growing revenue comes without an expense column: the profit margins
\* would have one denominator per row.
IsScenarioTable(t) ==
    \E n \in MinDataPoints..MaxScenarioRows, rising \in BOOLEAN,
       base \in {0, 4, 100}, step \in {0, 2}, expense \in {-1, 0, 50} :
        /\ step # 0 => expense < 0
        /\ t = ScenarioTable(n, rising, base, step, expense)

ScenarioInit ==
    /\ IsScenarioTable(history)
    /\ request = NoRequest
    /\ prediction = NoPrediction
    /\ health = NoHealth
    /\ ppc = "given"
    /\ metrics = {}
    /\ trend = NoTrend
    /\ PipelineIdle
    /\ SessionIdle

ScenarioNext ==
    \/ \E days_to_predict \in Horizons : Predict(ColRevenue, days_to_predict)
    \/ Health

ScenarioSpec == ScenarioInit /\ [][ScenarioNext]_vars

\* ------------------------------------------- the core operations on a table

\* Rows of the tables handed to process_data and then to a filter.
MaxCoreRows == 3

\* The arguments the filters are called with: the date, a numeric and a text
\* column, a column the table lacks and None; ranges of days that hold some,
\* all or none of the dates, and one that ends before it starts; no
\* category, some, all and one that no row has, and a number.
FilterColumns == {ColDate, ColAmount, ColMemo, ColPosted, NoColumn}
StartDays == {0, 2, 4}
EndDays == {1, 3}
Selections ==
    { {}, {Text(1)}, {Text(1), Text(2), Unknown}, {Text(3)}, {NumCell(RInt(0))} }

\* The caller hands one table to one chain of operations: a table as a file
\* reader yields it to validate_financial_data, process_data and a filter;
\* or a table with a datetime column to the predictors and the metrics.
CoreInit ==
    \/ /\ \/ \E n \in 1..MaxCoreRows, dk \in {"dates", "tied"}, dm \in {0, 1},
                am \in {0, 1}, tm \in {0, 1} :
                 /\ tm < n
                 /\ input = ImputeTable(n, dk, dm, am, tm)
           \/ input \in EdgeTables
       /\ verdict = NoVerdict
       /\ result = NoResult
       /\ result2 = NoResult
       /\ pc = "given"
       /\ filtering = NoFiltering
       /\ SessionIdle
       /\ PredictIdle
    \/ ScenarioInit

CoreNext ==
    \/ Validate
    \/ Process
    \/ \E date_column \in FilterColumns, start \in StartDays, end \in EndDays :
          FilterByDate(date_column, Timestamp(start, 0), Timestamp(end, 0))
    \/ \E category_column \in FilterColumns, selected_categories \in Selections :
          FilterByCategory(category_column, selected_categories)
    \/ \E days_to_predict \in Horizons : Predict(ColRevenue, days_to_predict)
    \/ Health
    \/ Metrics
    \/ Analyze(ColRevenue)

CoreSpec == CoreInit /\ [][CoreNext]_vars

\* ----------------------------------------------------------------- auth.py

\* hashlib.sha256(password).hexdigest(): a digest, one per password.
hash_password(password) == <<"sha256", password>>

\* init_db (lines 7-19) run alone: the file and its table are created when
\* the file is missing, and an existing file is left as it is.
init_db(db) ==
    IF db.exists THEN db ELSE [db EXCEPT !.exists = TRUE, !.table = TRUE]

UserRow(id, username, password, email) ==
    [id |-> id, username |-> username, password |-> password, email |-> email]

\* register_user (lines 25-57): success, message and the users table after.
register_user(rows, username, email, password) ==
    IF \E i \in DOMAIN rows : rows[i].username = username
    THEN [ok |-> FALSE, message |-> "Username already exists", rows |-> rows]
    ELSE IF \E i \in DOMAIN rows : rows[i].email = email
    THEN [ok |-> FALSE, message |-> "Email already registered", rows |-> rows]
    ELSE IF Len(password) < 6
    THEN [ok |-> FALSE, message |-> "Password must be at least 6 characters long",
          rows |-> rows]
    ELSE [ok |-> TRUE, message |-> "Registration successful",
          rows |-> Append(rows, UserRow(Len(rows) + 1, username,
                                       hash_password(password), email))]

\* A variant whose SELECT matches on the username alone; C26 tells it from
\* login_user.
login_user_AnyPassword(rows, username, password) ==
    LET match == SelectSeq(rows, LAMBDA r : r.username = username)
    IN  IF match # <<>>
        THEN [ok |-> TRUE, message |-> "Login successful",
              user_data |-> [id |-> match[1].id, username |-> match[1].username,
                             email |-> match[1].email]]
        ELSE [ok |-> FALSE, message |-> "Invalid username or password",
              user_data |-> NoUser]

\* login_user (lines 59-84): success, message and user_data.
login_user(rows, username, password) ==
    LET match == SelectSeq(rows, LAMBDA r : /\ r.username = username
                                            /\ r.password = hash_password(password))
    IN  IF match # <<>>
        THEN [ok |-> TRUE, message |-> "Login successful",
              user_data |-> [id |-> match[1].id, username |-> match[1].username,
                             email |-> match[1].email]]
        ELSE [ok |-> FALSE, message |-> "Invalid username or password",
              user_data |-> NoUser]

\* -------------------------------- register_user and login_user in sequence

AuthNames == {"", "ann", "bob"}
Emails == {"ann@x.org", "bob@x.org"}
AuthPasswords == {"secret1", "secret2", "abc"}

\* A call of register_user(username, email, password) (lines 25-57).
RegisterUser(username, email, password) ==
    LET r == register_user(users, username, email, password)
    IN  /\ users' = r.rows
        /\ store' = init_db(store)
        /\ auth' = [registered |->
                        IF r.ok
                        THEN auth.registered \cup
                                 {[username |-> username, password |-> password,
                                   email |-> email, id |-> r.rows[Len(r.rows)].id]}
                        ELSE auth.registered,
                    call |-> [function |-> "register_user", username |-> username,
                              email |-> email, password |-> password,
                              returned |-> [ok |-> r.ok, message |-> r.message,
                                            user_data |-> NoUser],
                              before |-> users]]
        /\ UNCHANGED <<session_state, shown, calls>>
        /\ UNCHANGED pipelineVars
        /\ UNCHANGED predictVars

\* A call of login_user(username, password) (lines 59-84).
LoginUser(username, password) ==
    LET r == login_user(users, username, password)
    IN  /\ store' = init_db(store)
        /\ auth' = [auth EXCEPT
                       !.call = [function |-> "login_user", username |-> username,
                                 email |-> "", password |-> password,
                                 returned |-> r, before |-> users]]
        /\ UNCHANGED <<session_state, users, shown, calls>>
        /\ UNCHANGED pipelineVars
        /\ UNCHANGED predictVars

AuthInit == SessionIdle /\ PipelineIdle /\ PredictIdle

AuthNext ==
    \/ \E u \in AuthNames, e \in Emails, p \in AuthPasswords : RegisterUser(u, e, p)
    \/ \E u \in AuthNames, p \in AuthPasswords : LoginUser(u, p)

AuthSpec == AuthInit /\ [][AuthNext]_vars

\* ------------------------------------- register_user in concurrent sessions

\* The UNIQUE constraints of lines 14 and 16, tested by SQLite when a row
\* is inserted.  A variant without them; C25 tells it from UniqueViolated.
UniqueViolated_NoConstraint(rows, username, email) == FALSE

UniqueViolated(rows, username, email) ==
    \E i \in DOMAIN rows : rows[i].username = username \/ rows[i].email = email

\* Lines 56-57: whatever the body raises is returned as a failure.
Caught(error) == [ok |-> FALSE, message |-> "Registration error: " \o error]

Returns(s, value) ==
    calls' = [calls EXCEPT ![s].at = "idle", ![s].returned = value]

Goes(s, at) == calls' = [calls EXCEPT ![s].at = at]

RegisterNames == {"ann", "bob"}
Passwords == {"secret1", "abc"}

\* Session s calls register_user(username, email, password).
RegisterCall(s, username, email, password) ==
    /\ calls[s].at = "idle"
    /\ calls' = [calls EXCEPT ![s] = [at |-> "init_db", username |-> username,
                                      email |-> email, password |-> password,
                                      returned |-> NoReturn]]
    /\ UNCHANGED <<session_state, users, shown, store>>
    /\ UNCHANGED pipelineVars
    /\ UNCHANGED predictVars
    /\ UNCHANGED auth

\* Line 9: os.path.exists(DB_PATH).
InitDbExists(s) ==
    /\ calls[s].at = "init_db"
    /\ Goes(s, IF store.exists THEN "select_username" ELSE "connect")
    /\ UNCHANGED <<session_state, users, shown, store>>
    /\ UNCHANGED pipelineVars
    /\ UNCHANGED predictVars
    /\ UNCHANGED auth

\* Line 10: sqlite3.connect creates the missing file.
InitDbConnect(s) ==
    /\ calls[s].at = "connect"
    /\ store' = [store EXCEPT !.exists = TRUE]
    /\ Goes(s, "create_table")
    /\ UNCHANGED <<session_state, users, shown>>
    /\ UNCHANGED pipelineVars
    /\ UNCHANGED predictVars
    /\ UNCHANGED auth

\* Lines 12-18: CREATE TABLE raises when another session has created it.
InitDbCreate(s) ==
    /\ calls[s].at = "create_table"
    /\ IF store.table
       THEN /\ Returns(s, Caught("table users already exists"))
            /\ UNCHANGED store
       ELSE /\ store' = [store EXCEPT !.table = TRUE]
            /\ Goes(s, "select_username")
    /\ UNCHANGED <<session_state, users, shown>>
    /\ UNCHANGED pipelineVars
    /\ UNCHANGED predictVars
    /\ UNCHANGED auth

\* Lines 35-37: the SELECT reads the committed rows, and raises when the
\* file exists without its table.
SelectUsername(s) ==
    /\ calls[s].at = "select_username"
    /\ IF ~store.table
       THEN Returns(s, Caught("no such table: users"))
       ELSE IF \E i \in DOMAIN users : users[i].username = calls[s].username
       THEN Returns(s, [ok |-> FALSE, message |-> "Username already exists"])
       ELSE Goes(s, "select_email")
    /\ UNCHANGED <<session_state, users, shown, store>>
    /\ UNCHANGED pipelineVars
    /\ UNCHANGED predictVars
    /\ UNCHANGED auth

\* Lines 40-46: the SELECT on the email, then the length of the password.
SelectEmail(s) ==
    /\ calls[s].at = "select_email"
    /\ IF ~store.table
       THEN Returns(s, Caught("no such table: users"))
       ELSE IF \E i \in DOMAIN users : users[i].email = calls[s].email
       THEN Returns(s, [ok |-> FALSE, message |-> "Email already registered"])
       ELSE IF Len(calls[s].password) < 6
       THEN Returns(s, [ok |-> FALSE,
                        message |-> "Password must be at least 6 characters long"])
       ELSE Goes(s, "insert")
    /\ UNCHANGED <<session_state, users, shown, store>>
    /\ UNCHANGED pipelineVars
    /\ UNCHANGED predictVars
    /\ UNCHANGED auth

\* Lines 49-51: the INSERT takes the write lock of the file.  While another
\* session holds it the statement waits, and raises when the wait times out;
\* with the lock it raises when a UNIQUE constraint fails.
Insert(s) ==
    /\ calls[s].at = "insert"
    /\ IF store.writer # 0
       THEN /\ Returns(s, Caught("database is locked"))
            /\ UNCHANGED store
       ELSE IF UniqueViolated(users, calls[s].username, calls[s].email)
       THEN /\ Returns(s, Caught("UNIQUE constraint failed"))
            /\ UNCHANGED store
       ELSE /\ store' = [store EXCEPT !.writer = s]
            /\ Goes(s, "commit")
    /\ UNCHANGED <<session_state, users, shown>>
    /\ UNCHANGED pipelineVars
    /\ UNCHANGED predictVars
    /\ UNCHANGED auth

\* Lines 52-55: the commit makes the row visible and frees the lock.
Commit(s) ==
    /\ calls[s].at = "commit"
    /\ users' = Append(users, UserRow(Len(users) + 1, calls[s].username,
                                      hash_password(calls[s].password),
                                      calls[s].email))
    /\ store' = [store EXCEPT !.writer = 0]
    /\ Returns(s, [ok |-> TRUE, message |-> "Registration successful"])
    /\ UNCHANGED <<session_state, shown>>
    /\ UNCHANGED pipelineVars
    /\ UNCHANGED predictVars
    /\ UNCHANGED auth

RegisterInit == SessionIdle /\ PipelineIdle /\ PredictIdle

RegisterNext ==
    \/ \E s \in Sessions, u \in RegisterNames, e \in Emails, p \in Passwords :
          RegisterCall(s, u, e, p)
    \/ \E s \in Sessions : InitDbExists(s)
    \/ \E s \in Sessions : InitDbConnect(s)
    \/ \E s \in Sessions : InitDbCreate(s)
    \/ \E s \in Sessions : SelectUsername(s)
    \/ \E s \in Sessions : SelectEmail(s)
    \/ \E s \in Sessions : Insert(s)
    \/ \E s \in Sessions : Commit(s)

RegisterSpec == RegisterInit /\ [][RegisterNext]_vars

\* ------------------------------------------------------------------ app.py

\* Rows of the tables uploaded in the session.
MaxUploadRows == 2

Usernames == {"", "ann", "bob"}

\* A variant that draws the dashboard whoever is looking; C27 tells it from
\* Dashboard.
Dashboard_Always(ss) == TRUE

\* Line 84: the dashboard is the else branch of "if not logged_in".
Dashboard(ss) == ss.logged_in

\* The Sign Up button (lines 72-83).
SignUp(username, email, password, confirm) ==
    /\ ~session_state.logged_in
    /\ IF username = "" \/ email = "" \/ password = ""
       THEN /\ shown' = Display("warning", "Please fill in all fields", "")
            /\ UNCHANGED <<users, store>>
       ELSE IF password # confirm
       THEN /\ shown' = Display("error", "Passwords do not match", "")
            /\ UNCHANGED <<users, store>>
       ELSE LET r == register_user(users, username, email, password)
            IN  /\ users' = r.rows
                /\ store' = init_db(store)
                /\ shown' = Display(IF r.ok THEN "success" ELSE "error", r.message, "")
    /\ UNCHANGED <<session_state, calls>>
    /\ UNCHANGED pipelineVars
    /\ UNCHANGED predictVars
    /\ UNCHANGED auth

\* The Login button (lines 52-63).
Login(username, password) ==
    /\ ~session_state.logged_in
    /\ IF username # "" /\ password # ""
       THEN LET r == login_user(users, username, password)
            IN  /\ store' = init_db(store)
                /\ IF r.ok
                   THEN /\ session_state' = [session_state EXCEPT
                                                !.logged_in = TRUE,
                                                !.user_info = r.user_data]
                        /\ shown' = Display("success", r.message, "")
                   ELSE /\ shown' = Display("error", r.message, "")
                        /\ UNCHANGED session_state
       ELSE /\ shown' = Display("warning", "Please enter both username and password", "")
            /\ UNCHANGED <<session_state, store>>
    /\ UNCHANGED <<users, calls>>
    /\ UNCHANGED pipelineVars
    /\ UNCHANGED predictVars
    /\ UNCHANGED auth

\* The Logout button (lines 101-106).
Logout ==
    /\ Dashboard(session_state)
    /\ session_state' = [session_state EXCEPT
                            !.logged_in = FALSE, !.user_info = NoUser,
                            !.data = NoData, !.filtered_data = NoData]
    /\ shown' = Display("none", "", "")
    /\ UNCHANGED <<users, store, calls>>
    /\ UNCHANGED pipelineVars
    /\ UNCHANGED predictVars
    /\ UNCHANGED auth

\* StoreUpload without the is_valid test of line 123.
StoreUpload_Unchecked(ss, v, r) ==
    [ss EXCEPT !.data = r.df, !.filtered_data = r.df,
               !.columns = Columns(r.df), !.date_column = r.date_column,
               !.numeric_columns = r.numeric_columns,
               !.categorical_columns = r.categorical_columns]

\* Lines 123-138: the session after validate_financial_data returned v for
\* the uploaded table and process_data would return r for it.
StoreUpload(ss, v, r) ==
    IF v.ok
    THEN [ss EXCEPT !.data = r.df, !.filtered_data = r.df,
                    !.columns = Columns(r.df), !.date_column = r.date_column,
                    !.numeric_columns = r.numeric_columns,
                    !.categorical_columns = r.categorical_columns]
    ELSE ss

\* Lines 143-186 with the widgets as they first appear: the date range is
\* [min, max] of the date column, which keeps the rows that have a date, and
\* every category is selected, which keeps every row.  When no row has a
\* date, min and max are NaT, st.date_input raises on them and the run ends
\* with filtered_data as it was.
DefaultFilters(ss) ==
    IF ss.data.none \/ ss.date_column = NoColumn THEN ss
    ELSE LET key == Col(ss.data, ss.date_column).cells
             dated == SelectSeq([i \in 1..NRows(ss.data) |-> i],
                                LAMBDA i : ~isnull(key[i]))
         IN  IF dated = <<>> THEN ss
             ELSE [ss EXCEPT !.filtered_data = Reorder(ss.data, dated)]

\* A script run with a file in the uploader (lines 112-186); the reader
\* returns table t, or raises when the file cannot be read.
Upload(readable, t) ==
    /\ Dashboard(session_state)
    /\ IF ~readable
       THEN /\ shown' = Display("error", "Error loading data", "")
            /\ session_state' = DefaultFilters(session_state)
       ELSE LET v == validate_financial_data(t)
            IN  \E r \in process_data(t) :
                   /\ session_state' = DefaultFilters(StoreUpload(session_state, v, r))
                   /\ shown' = IF v.ok
                               THEN Display("success", "Data successfully loaded!", "")
                               ELSE Display("error", "Invalid data format", v.reason)
    /\ UNCHANGED <<users, store, calls>>
    /\ UNCHANGED pipelineVars
    /\ UNCHANGED predictVars
    /\ UNCHANGED auth

\* The tables a session uploads: 1 to MaxUploadRows rows, a date, a numeric
\* and a text column; and the edge tables a reader can return.
UploadTables ==
    UNION { { ImputeTable(n, dk, dm, am, tm) :
                dk \in {"dates", "tied"}, dm \in {0, 1} \cap (0..n),
                am \in 0..n, tm \in 0..(n - 1) } :
            n \in 1..MaxUploadRows }
    \cup (EdgeTables \ {NoData})

\* Lines 159-186 with the date range the user picked and every category
\* selected: the rows whose date lies in the range, which may be none.
DateRange(ss, start_date, end_date) ==
    LET key == Col(ss.data, ss.date_column).cells
        rows == Rows(ss.data, LAMBDA i : /\ ~isnull(key[i])
                                          /\ start_date <= key[i].v
                                          /\ key[i].v <= end_date)
    IN  [ss EXCEPT !.filtered_data = Reorder(ss.data, rows)]

\* A script run after the user moved the date range (lines 143-217): the
\* filters, then the metrics of the filtered table.
Filter(start_date, end_date) ==
    /\ Dashboard(session_state)
    /\ ~session_state.data.none
    /\ session_state.date_column # NoColumn
    /\ \E i \in 1..NRows(session_state.data) :
          ~isnull(Col(session_state.data, session_state.date_column).cells[i])
    /\ start_date <= end_date
    /\ session_state' = DateRange(session_state, start_date, end_date)
    /\ shown' = Display("metrics", "Key Financial Metrics",
                        calculate_financial_metrics(session_state'.filtered_data,
                                                    session_state.numeric_columns))
    /\ UNCHANGED <<users, store, calls>>
    /\ UNCHANGED pipelineVars
    /\ UNCHANGED predictVars
    /\ UNCHANGED auth

\* The Generate Prediction button (lines 316-352): the result is shown and
\* kept in a local name of the script run only.
GeneratePrediction(prediction_column, prediction_days) ==
    /\ Dashboard(session_state)
    /\ ~session_state.filtered_data.none
    /\ session_state.date_column # NoColumn
    /\ prediction_column \in Range(session_state.numeric_columns)
    /\ request' = [date_column |-> session_state.date_column,
                   value_column |-> prediction_column,
                   days_to_predict |-> prediction_days]
    /\ prediction' \in predict_future_values(session_state.filtered_data,
                                             session_state.date_column,
                                             prediction_column, prediction_days)
    /\ shown' = IF prediction'.raised
                THEN Display("error", "Error generating prediction",
                             prediction'.message)
                ELSE Display("success", "Prediction generated",
                             [average_prediction |-> prediction'.average_prediction,
                              trend_description |-> prediction'.trend_description])
    /\ UNCHANGED <<session_state, users, store, calls>>
    /\ UNCHANGED <<history, health, ppc, metrics, trend>>
    /\ UNCHANGED pipelineVars
    /\ UNCHANGED auth

\* The keys of st.session_state: those of lines 23-39, and the key of the
\* prediction selectbox once it is drawn (lines 316-321).
SessionKeys(ss) ==
    DOMAIN ss \cup
    (IF ~ss.filtered_data.none /\ ss.date_column # NoColumn /\ ss.numeric_columns # <<>>
     THEN {"prediction_column"} ELSE {})

\* Lines 442-448: the section is written when st.session_state holds a
\* prediction_result.
PredictionSection(ss) ==
    IF "prediction_result" \in SessionKeys(ss)
    THEN <<[title |-> "AI Predictions",
            average_prediction |-> ss.prediction_result.average_prediction,
            trend_description |-> ss.prediction_result.trend_description]>>
    ELSE <<>>

ColPosIn(names, name) == CHOOSE i \in DOMAIN names : names[i] = name

\* Lines 372-450: the report, by its sections.
Report(ss) ==
    LET data == ss.filtered_data
        dated == ss.date_column # NoColumn /\ ~empty(data)
        dates == IF dated THEN Col(data, ss.date_column).cells ELSE <<>>
    IN  <<[title |-> "Data Summary", records |-> NRows(data),
           date_range |-> IF dated /\ \E i \in DOMAIN dates : ~isnull(dates[i])
                          THEN <<TsMin(dates), TsMax(dates)>>
                          ELSE <<>>],
          [title |-> "Key Metrics",
           metrics |-> calculate_financial_metrics(data, ss.numeric_columns)],
          [title |-> "Graph Analysis",
           time_series |-> IF dated
                           THEN SelectSeq(ss.numeric_columns,
                                          LAMBDA c : ColPosIn(ss.numeric_columns, c) <= 3)
                           ELSE <<>>,
           categorical |-> IF ss.categorical_columns # <<>> /\ ~empty(data)
                           THEN <<ss.categorical_columns[1]>> ELSE <<>>]>>
        \o PredictionSection(ss)

\* The Export Summary Report button (lines 370-457).
ExportReport ==
    /\ Dashboard(session_state)
    /\ ~session_state.filtered_data.none
    /\ shown' = Display("report", "Financial Dashboard Summary Report",
                        Report(session_state))
    /\ UNCHANGED <<session_state, users, store, calls>>
    /\ UNCHANGED pipelineVars
    /\ UNCHANGED predictVars
    /\ UNCHANGED auth

\* The tables of a dashboard session: one long enough to predict from, one
\* too short, and the edge tables.  The days a date range starts and ends on.
RevenueTable(n, base, step) ==
    Table(RangeIndex(n),
          << Body(ColDate, "dates", n, 0),
             Column(ColRevenue, "number",
                    [i \in 1..n |-> NumCell(RInt(base + step * i))]) >>)

DashboardTables ==
    { RevenueTable(MinDataPoints, 4, 2),
      ImputeTable(MaxUploadRows, "dates", 0, 1, 0) }
    \cup (EdgeTables \ {NoData})

RangeDays == {1, 3}

DashboardInit == SessionIdle /\ PipelineIdle /\ PredictIdle

DashboardNext ==
    \/ \E u \in RegisterNames, e \in Emails, p \in Passwords : SignUp(u, e, p, p)
    \/ \E u \in Usernames, p \in Passwords : Login(u, p)
    \/ Logout
    \/ \E readable \in BOOLEAN, t \in DashboardTables : Upload(readable, t)
    \/ \E start_date \in RangeDays, end_date \in RangeDays :
          Filter(start_date, end_date)
    \/ \E prediction_column \in {ColRevenue, ColAmount, ColBalance},
          prediction_days \in Horizons :
          GeneratePrediction(prediction_column, prediction_days)
    \/ ExportReport

DashboardSpec == DashboardInit /\ [][DashboardNext]_vars

Init == SessionIdle /\ PipelineIdle /\ PredictIdle

Next ==
    \/ \E u \in Usernames, e \in Emails, p \in Passwords, c \in Passwords :
          SignUp(u, e, p, c)
    \/ \E u \in Usernames, p \in Passwords : Login(u, p)
    \/ Logout
    \/ \E readable \in BOOLEAN, t \in UploadTables : Upload(readable, t)

Spec == Init /\ [][Next]_vars

\* ------------------------------------------------- claims on the pipeline

WasProcessed == pc \in {"processed", "processed_twice"}
NonEmptyInput == ~input.none /\ ~empty(input)

\* The position of the row labelled `label`, and the cell of that row.
RowOf(df, label) == CHOOSE i \in 1..NRows(df) : df.index[i] = label
CellAt(df, name, label) == Col(df, name).cells[RowOf(df, label)]

\* C1: for a table that validate_financial_data accepts (it has a column at
\* least 80% parseable as dates and a numeric column), process_data returns
\* the column validate_financial_data accepted as its date column.
C1_DateColumnIsTheValidatedOne ==
    (WasProcessed /\ verdict.ok) => result.date_column = verdict.date_column_name

\* Whether the whole column parses as dates, and whether the lower-cased name
\* contains indicator ii.
Parses(col) == \A i \in DOMAIN col.cells : col.cells[i].k \in {"na", "dstr", "num", "ts"}
Indicates(ii, col) == Contains(lower(col.name), date_indicators[ii])

\* C2: the date column is, for the first indicator (in the order date, time,
\* day, month, year, period) that some parsing column's name contains, the
\* first such column in table order; without any, the first column in table
\* order that parses; without any, none.
C2_TwoPassPriority ==
    (WasProcessed /\ NonEmptyInput) =>
        LET N == NCols(input)
            Hit(ii, c) == Indicates(ii, input.cols[c]) /\ Parses(input.cols[c])
        IN  IF \E ii \in DOMAIN date_indicators : \E c \in 1..N : Hit(ii, c)
            THEN \E ii \in DOMAIN date_indicators : \E c \in 1..N :
                    /\ Hit(ii, c)
                    /\ \A jj \in 1..(ii - 1) : \A b \in 1..N : ~Hit(jj, b)
                    /\ \A b \in 1..(c - 1) : ~Hit(ii, b)
                    /\ result.date_column = input.cols[c].name
            ELSE IF \E c \in 1..N : Parses(input.cols[c])
            THEN \E c \in 1..N :
                    /\ Parses(input.cols[c])
                    /\ \A b \in 1..(c - 1) : ~Parses(input.cols[b])
                    /\ result.date_column = input.cols[c].name
            ELSE result.date_column = NoColumn

\* A column found by its name although a parsing column without an indicator
\* in its name stands before it.
C2_Witness ==
    /\ WasProcessed /\ NonEmptyInput /\ NCols(input) = 3
    /\ Parses(input.cols[1]) /\ \A ii \in DOMAIN date_indicators : ~Indicates(ii, input.cols[1])
    /\ Indicates(3, input.cols[2]) /\ Parses(input.cols[2])
    /\ Indicates(1, input.cols[3]) /\ Parses(input.cols[3])
    /\ result.date_column = input.cols[3].name

\* C3: for a non-empty table the date column, numeric_columns and
\* categorical_columns are pairwise disjoint and cover the columns, and a
\* column is numeric exactly when its storage type is numeric and it is not
\* the date column.
C3_ClassificationPartitions ==
    (WasProcessed /\ NonEmptyInput) =>
        LET D == IF result.date_column = NoColumn THEN {} ELSE {result.date_column}
            Nm == Range(result.numeric_columns)
            Ct == Range(result.categorical_columns)
        IN  /\ D \cap Nm = {} /\ D \cap Ct = {} /\ Nm \cap Ct = {}
            /\ D \cup Nm \cup Ct = Range(Columns(input))
            /\ Len(result.numeric_columns) = Cardinality(Nm)
            /\ Len(result.categorical_columns) = Cardinality(Ct)
            /\ \A i \in 1..NCols(input) :
                  input.cols[i].name \in Nm <=>
                      /\ input.cols[i].dtype = "number"
                      /\ input.cols[i].name # result.date_column

\* A table with a date, a numeric and a categorical column.
C3_Witness ==
    /\ WasProcessed /\ NonEmptyInput
    /\ result.date_column # NoColumn
    /\ result.numeric_columns # <<>> /\ result.categorical_columns # <<>>

\* The share of a column's cells that parse as dates is at least 80%.
MostlyDates(col) ==
    5 * Cardinality({i \in DOMAIN col.cells : col.cells[i].k \in {"dstr", "num", "ts"}})
        >= 4 * Len(col.cells)

\* C4: validate_financial_data rejects exactly the tables that are missing,
\* empty, of fewer than 2 columns, entirely null, without a column of at
\* least 80% parseable dates, or without a numeric column; the column names'
\* keywords do not enter the verdict.
C4_ValidateRejectsExactly ==
    pc # "given" =>
        (verdict.ok <=>
            ~ \/ input.none
              \/ empty(input)
              \/ NCols(input) < 2
              \/ AllNull(input)
              \/ ~ \E i \in 1..NCols(input) : MostlyDates(input.cols[i])
              \/ ~ \E i \in 1..NCols(input) : input.cols[i].dtype = "number")

\* C6: after process_data no cell of a numeric or categorical column is
\* missing, a missing categorical cell holds "Unknown", every cell that was
\* not missing keeps its value, and a numeric column without missing cells
\* keeps its mean.
C6_NoMissingAfterProcessing ==
    (WasProcessed /\ NonEmptyInput) =>
        /\ Range(result.df.index) = Range(input.index)
        /\ \A name \in Range(result.numeric_columns) \cup Range(result.categorical_columns) :
              /\ \A l \in Range(input.index) :
                    /\ ~isnull(CellAt(result.df, name, l))
                    /\ ~isnull(CellAt(input, name, l)) =>
                          CellAt(result.df, name, l) = CellAt(input, name, l)
                    /\ (isnull(CellAt(input, name, l))
                          /\ name \in Range(result.categorical_columns)) =>
                          CellAt(result.df, name, l) = Unknown
              /\ (name \in Range(result.numeric_columns)
                    /\ CountNull(Col(input, name).cells) = 0) =>
                    Mean(Col(result.df, name).cells) = Mean(Col(input, name).cells)

\* A table with missing cells in a numeric and in a categorical column.
C6_Witness ==
    /\ WasProcessed /\ NonEmptyInput
    /\ \E name \in Range(result.numeric_columns) :
          CountNull(Col(input, name).cells) > 0
    /\ \E name \in Range(result.categorical_columns) :
          CountNull(Col(input, name).cells) > 0
    /\ \E name \in Range(result.numeric_columns) :
          CountNull(Col(input, name).cells) = 0

\* C7: the missing cells of a numeric column are filled with 0 when more
\* than half of its cells are missing, and otherwise, at exactly half too,
\* with the mean of its values.
C7_NumericFillValue ==
    (WasProcessed /\ NonEmptyInput) =>
        \A name \in Range(result.numeric_columns) :
            LET cells == Col(input, name).cells
                nulls == Cardinality({i \in DOMAIN cells : cells[i].k = "na"})
                vals == SelectSeq(cells, LAMBDA c : c.k = "num")
                total == SeqSum([i \in DOMAIN vals |-> [n |-> vals[i].v, d |-> vals[i].d]])
            IN  \A l \in Range(input.index) :
                    isnull(CellAt(input, name, l)) =>
                        CellAt(result.df, name, l) =
                            IF 2 * nulls > Len(cells)
                            THEN [k |-> "num", v |-> 0, d |-> 1]
                            ELSE NumCell(RDiv(total, RInt(Len(vals))))

\* A numeric column with exactly half of its cells missing and a mean that is
\* not 0, and one with all cells missing.
C7_Witness ==
    /\ WasProcessed /\ NonEmptyInput
    /\ \E name \in Range(result.numeric_columns) :
          LET cells == Col(input, name).cells
          IN  /\ 2 * CountNull(cells) = Len(cells)
              /\ \E i \in DOMAIN cells :
                    isnull(cells[i]) /\ Col(result.df, name).cells[i].v # 0

\* C8: process_data applied to the table a process_data call returned
\* returns the same table, cell values and row order, and the same
\* classification.
C8_ProcessIdempotent ==
    pc = "processed_twice" => result2 = result

\* --------------------------------------------------- claims on the session

\* C5: a script run that reports an upload as invalid leaves the session's
\* data, filtered_data, columns, date_column, numeric_columns and
\* categorical_columns as they were; only the reason is shown.
C5_InvalidUploadChangesNothing ==
    [][ (shown'.text = "Invalid data format") =>
            /\ session_state'.data = session_state.data
            /\ session_state'.filtered_data = session_state.filtered_data
            /\ session_state'.columns = session_state.columns
            /\ session_state'.date_column = session_state.date_column
            /\ session_state'.numeric_columns = session_state.numeric_columns
            /\ session_state'.categorical_columns = session_state.categorical_columns
            /\ shown'.detail \in {"empty", "too_few_columns", "all_null",
                                  "no_date_column", "no_numeric_columns"} ]_vars

\* An upload was rejected in a session that holds an earlier upload.
C5_Witness ==
    /\ shown.text = "Invalid data format"
    /\ ~session_state.data.none
    /\ session_state.date_column # NoColumn

\* ------------------------------------------------ claims on the predictors

Predicted == ppc \notin {"idle", "given"} /\ request # NoRequest
Scored == ppc \in {"scored", "measured", "analyzed"}
Measured == ppc \in {"measured", "analyzed"}
Analyzed == ppc = "analyzed"

\* The rows of the table given in which both the date and the value asked for
\* are present.
ValidPairs ==
    LET dates == Col(history, request.date_column).cells
        values == Col(history, request.value_column).cells
    IN  Cardinality({i \in 1..NRows(history) : ~isnull(dates[i]) /\ ~isnull(values[i])})

\* C9: predict_future_values on a table with fewer than 10 rows that have
\* both the date and the value fails with the insufficient-data error and
\* returns no forecast, whatever the number of rows.
C9_FewValidPairsIsInsufficientData ==
    (Predicted /\ ValidPairs < 10) =>
        /\ prediction.raised
        /\ prediction.message = "Not enough data points for reliable prediction"

\* What does hold of such a table: no forecast is returned.
C9_NoForecastFromFewValidPairs ==
    (Predicted /\ ValidPairs < 10) => prediction.raised

\* C10 as stated: on a table of fewer than 10 rows both predictors return
\* normally, a result with a null score or forecast and a text, and neither
\* raises.
C10_InsufficientDataIsReturned ==
    NRows(history) < 10 =>
        /\ Predicted => (~prediction.raised /\ prediction.message # "")
        /\ Scored => (~health.raised /\ ~health.has_score /\ health.description # "")

\* C10 as the code has it: on a table of fewer than 10 rows
\* predict_financial_health returns a result with a null score and the text
\* "Not enough data for financial health prediction", and
\* predict_future_values raises ValueError "Not enough data points for
\* reliable prediction" and returns nothing.
C10_InsufficientDataSurfacing ==
    NRows(history) < 10 =>
        /\ Predicted =>
              /\ prediction.raised
              /\ prediction.error = "ValueError"
              /\ prediction.message = "Not enough data points for reliable prediction"
        /\ Scored =>
              /\ ~health.raised
              /\ ~health.has_score
              /\ health.description = "Not enough data for financial health prediction"

\* Both predictors have run on a table of 9 rows.
C10_Witness ==
    /\ NRows(history) = 9
    /\ Predicted /\ Scored
    /\ prediction.raised
    /\ ~health.has_score

\* The float columns of the table given, and the values of one in table
\* order and in date order (rows without a date last), missing ones dropped.
ValueColumns == SelectSeq(Columns(history), LAMBDA c : c # ColDate)
Present(cells) ==
    LET at == SelectSeq([i \in DOMAIN cells |-> i], LAMBDA i : cells[i].k = "num")
    IN  [j \in DOMAIN at |-> [n |-> cells[at[j]].v, d |-> cells[at[j]].d]]
InTableOrder(col) == Present(Col(history, col).cells)
ByDate(col) ==
    LET sorted == CHOOSE t \in sort_values(history, ColDate) : TRUE
    IN  Col(sorted, col).cells

\* C11: a percent change whose base value is 0 is left out of the result by
\* calculate_financial_metrics ("c Change %"), by analyze_trends (change_pct)
\* and by predict_future_values (percent_change); none reports a value.
C11_ZeroBaseOmitsPercentChange ==
    /\ Measured =>
          \A c \in Range(ValueColumns) :
              (InTableOrder(c) # <<>> /\ InTableOrder(c)[1].n = 0) =>
                  Key("Change %", c) \notin Keys(metrics)
    /\ (Analyzed /\ Present(ByDate(trend.column)) # <<>>
          /\ Present(ByDate(trend.column))[1].n = 0) =>
              "change_pct" \notin TrendKeys
    /\ (Predicted /\ ~prediction.raised
          /\ CellRat(ByDate(request.value_column)[NRows(history)]).n = 0) =>
              "percent_change" \notin ForecastKeys

\* What does hold: calculate_financial_metrics leaves "c Change %" out when
\* the first value of c is 0.
C11_MetricsOmitZeroBase ==
    Measured =>
        \A c \in Range(ValueColumns) :
            (InTableOrder(c) # <<>> /\ InTableOrder(c)[1].n = 0) =>
                Key("Change %", c) \notin Keys(metrics)

\* What the other two do instead: a series rising from 0 is reported as a
\* change of 0%, "Stable".
C11_ZeroBaseReportedAsStable ==
    /\ (Analyzed /\ Len(Present(ByDate(trend.column))) >= 2
          /\ Present(ByDate(trend.column))[1].n = 0) =>
              (trend.change_pct = RInt(0) /\ trend.trend = "Stable")
    /\ (Predicted /\ ~prediction.raised
          /\ CellRat(ByDate(request.value_column)[NRows(history)]).n = 0) =>
              (prediction.percent_change = RInt(0)
                  /\ prediction.trend_description = "Stable trend")

\* --------------------------------------------------- claims on the metrics

\* C12: for every numeric column c, calculate_financial_metrics emits "Avg c"
\* exactly when c has a value, "c Change %" (last against first value in
\* table order) exactly when c has 2 values or more and the first is not 0,
\* and "c Volatility" exactly when c has 3 values or more; 3 or more
\* identical values give a Volatility of 0, present.
C12_ColumnMetricsPresence ==
    Measured =>
        \A c \in Range(ValueColumns) :
            LET v == InTableOrder(c)
                avg == Key("Avg", c)
                chg == Key("Change %", c)
                vol == Key("Volatility", c)
            IN  /\ avg \in Keys(metrics) <=> Len(v) >= 1
                /\ avg \in Keys(metrics) =>
                      RMul(Get(metrics, avg), RInt(Len(v))) = SeqSum(v)
                /\ chg \in Keys(metrics) <=> (Len(v) >= 2 /\ v[1].n # 0)
                /\ chg \in Keys(metrics) =>
                      RMul(Get(metrics, chg), v[1]) =
                          RMul(RSub(v[Len(v)], v[1]), RInt(100))
                /\ vol \in Keys(metrics) <=> Len(v) >= 3
                /\ (Len(v) >= 3 /\ \A i \in DOMAIN v : v[i] = v[1]) =>
                      (vol \in Keys(metrics) /\ Get(metrics, vol) = RInt(0))

\* A column of 2 values (a Change %, no Volatility), one of 4 identical
\* values and one without values, measured.
C12_Witness ==
    /\ Measured
    /\ \E c \in Range(ValueColumns) :
          /\ Len(InTableOrder(c)) = 2
          /\ Key("Change %", c) \in Keys(metrics)
          /\ Key("Volatility", c) \notin Keys(metrics)
    /\ \E c \in Range(ValueColumns) :
          /\ Len(InTableOrder(c)) = 4
          /\ Get(metrics, Key("Volatility", c)) = RInt(0)
          /\ Get(metrics, Key("Avg", c)).n # 0

\* The columns of the table given whose name holds a keyword of the list, in
\* table order.
Named(keywords) == SelectSeq(ValueColumns, LAMBDA c : MatchesAny(c, keywords))

\* C13: "Total Revenue" is the sum of the values present in the first column
\* named after revenue, income or sales, and "Total Expenses" that of the
\* first column named after expense, cost or spend; later columns of the same
\* category add nothing, and the total is absent when no column is so named
\* or the first one has no value.
C13_FirstMatchTotals ==
    Measured =>
        \A cat \in {<<"Total Revenue", revenue_keywords>>,
                    <<"Total Expenses", expense_keywords>>} :
            LET named == Named(cat[2])
                total == Key(cat[1], <<>>)
            IN  /\ total \in Keys(metrics) <=>
                      (named # <<>> /\ InTableOrder(named[1]) # <<>>)
                /\ total \in Keys(metrics) =>
                      Get(metrics, total) = SeqSum(InTableOrder(named[1]))

\* Two columns of each category with values, measured: the totals are those
\* of the first columns alone.
C13_Witness ==
    /\ Measured
    /\ Len(Named(revenue_keywords)) = 2 /\ Len(Named(expense_keywords)) = 2
    /\ \A c \in Range(ValueColumns) : InTableOrder(c) # <<>>
    /\ Get(metrics, Key("Total Revenue", <<>>)) = SeqSum(InTableOrder(ColRevenue))
    /\ Get(metrics, Key("Total Revenue", <<>>)).n # 0
    /\ Get(metrics, Key("Total Expenses", <<>>)) = SeqSum(InTableOrder(ColCost))

\* C14: "Net Profit" = Total Revenue - Total Expenses is returned exactly when
\* both totals are, and "Profit Margin %" = Net Profit / Total Revenue x 100
\* exactly when moreover Total Revenue is not 0; a revenue of 0 removes the
\* margin alone: the metrics of every column and the totals are returned as
\* for any other table.
C14_ProfitAndMargin ==
    Measured =>
        LET revenue == Key("Total Revenue", <<>>)
            expenses == Key("Total Expenses", <<>>)
            profit == Key("Net Profit", <<>>)
            margin == Key("Profit Margin %", <<>>)
            both == revenue \in Keys(metrics) /\ expenses \in Keys(metrics)
        IN  /\ profit \in Keys(metrics) <=> both
            /\ both => Get(metrics, profit) =
                           RSub(Get(metrics, revenue), Get(metrics, expenses))
            /\ margin \in Keys(metrics) <=> (both /\ Get(metrics, revenue).n # 0)
            /\ margin \in Keys(metrics) =>
                  RMul(Get(metrics, margin), Get(metrics, revenue)) =
                      RMul(Get(metrics, profit), RInt(100))
            /\ \A c \in Range(ValueColumns) :
                  InTableOrder(c) # <<>> => Key("Avg", c) \in Keys(metrics)
            /\ Named(revenue_keywords) # <<>>
                  /\ InTableOrder(Named(revenue_keywords)[1]) # <<>>
                  => revenue \in Keys(metrics)
            /\ Named(expense_keywords) # <<>>
                  /\ InTableOrder(Named(expense_keywords)[1]) # <<>>
                  => expenses \in Keys(metrics)

\* A revenue of 0 in all with expenses that are not: the profit is returned,
\* the margin is not.
C14_Witness ==
    /\ Measured
    /\ {Key("Total Revenue", <<>>), Key("Total Expenses", <<>>),
        Key("Net Profit", <<>>)} \subseteq Keys(metrics)
    /\ Get(metrics, Key("Total Revenue", <<>>)) = RInt(0)
    /\ Get(metrics, Key("Total Expenses", <<>>)).n > 0
    /\ Get(metrics, Key("Net Profit", <<>>)).n < 0
    /\ Key("Profit Margin %", <<>>) \notin Keys(metrics)
    /\ Key("Avg", ColRevenue) \in Keys(metrics)

\* ------------------------------------------- claims on the forecast's label

\* C15: the label of a forecast is fixed by its percent_change, the mean
\* forecast against the last value by date: above 5 strong up, in (0, 5]
\* slight up, below -5 strong down, in [-5, 0) slight down, and stable exactly
\* when percent_change is 0.
C15_LabelByPercentChange ==
    (Predicted /\ ~prediction.raised) =>
        LET change == prediction.percent_change
            label == prediction.trend_description
            last_value == CellRat(ByDate(request.value_column)[NRows(history)])
        IN  /\ label = "Strong upward trend" <=> RLt(RInt(5), change)
            /\ label = "Slight upward trend" <=> (RLt(RInt(0), change) /\ RLe(change, RInt(5)))
            /\ label = "Strong downward trend" <=> RLt(change, RInt(-5))
            /\ label = "Slight downward trend" <=> (RLe(RInt(-5), change) /\ RLt(change, RInt(0)))
            /\ label = "Stable trend" <=> change = RInt(0)
            /\ last_value.n # 0 =>
                  RMul(change, last_value) =
                      RMul(RSub(prediction.average_prediction, last_value), RInt(100))

\* A forecast of exactly +5%, labelled slight, from a table whose dates fall
\* down the rows.
C15_Witness ==
    /\ Predicted /\ ~prediction.raised
    /\ prediction.percent_change = RInt(5)
    /\ prediction.trend_description = "Slight upward trend"
    /\ TsLe(Col(history, ColDate).cells[NRows(history)], Col(history, ColDate).cells[1])

\* --------------------------------------------- claims on the health score

\* The columns named after neither revenue nor expense, and whether one
\* yields a volatility: its mean is not 0 (a mean of NaN is not 0).
OtherColumns ==
    SelectSeq(ValueColumns,
              LAMBDA c : ~MatchesAny(c, revenue_keywords) /\ ~MatchesAny(c, expense_keywords))
YieldsVolatility(c) ==
    \/ Len(InTableOrder(c)) < NRows(history)
    \/ SeqSum(InTableOrder(c)).n # 0
FeatureAvailable ==
    \/ Named(revenue_keywords) # <<>>
    \/ Named(expense_keywords) # <<>>
    \/ \E c \in Range(OtherColumns) : YieldsVolatility(c)

\* C16: with no feature available (no revenue column, no expense column, no
\* other numeric column that yields a volatility) predict_financial_health
\* returns a null health_score, and it returns a numeric one only from a
\* table of 10 rows or more with a feature available.
C16_NullScoreWithoutFeatures ==
    Scored =>
        /\ ~FeatureAvailable => (~health.raised /\ ~health.has_score)
        /\ health.has_score => (FeatureAvailable /\ NRows(history) >= 10)

\* A table of 10 rows or more whose only float column has mean 0: no feature,
\* a null score and the text about insufficient financial data.
C16_Witness ==
    /\ Scored
    /\ NRows(history) >= 10
    /\ ValueColumns # <<>>
    /\ ~FeatureAvailable
    /\ ~health.has_score
    /\ health.description = "Insufficient financial data for health prediction"

\* C17: on a table of fewer than 10 rows predict_financial_health gives a null
\* score with a text and predict_future_values reports insufficient data,
\* while calculate_financial_metrics on the same table still gives "Avg c"
\* for every numeric column c with a value and "c Volatility" for every one
\* with 3 values or more.
C17_ShortTableStillMeasured ==
    NRows(history) < 10 =>
        /\ Scored => (~health.raised /\ ~health.has_score /\ health.description # "")
        /\ Predicted =>
              /\ prediction.raised
              /\ prediction.message = "Not enough data points for reliable prediction"
        /\ Measured =>
              \A c \in Range(ValueColumns) :
                  /\ Len(InTableOrder(c)) >= 1 => Key("Avg", c) \in Keys(metrics)
                  /\ Len(InTableOrder(c)) >= 3 => Key("Volatility", c) \in Keys(metrics)

\* The three have run on a table of fewer than 10 rows with two columns of
\* values.
C17_Witness ==
    /\ NRows(history) < 10
    /\ Predicted /\ Scored /\ Measured
    /\ prediction.raised /\ ~health.has_score
    /\ Len(ValueColumns) >= 2
    /\ \A c \in Range(ValueColumns) :
          /\ Key("Avg", c) \in Keys(metrics)
          /\ Key("Volatility", c) \in Keys(metrics)

\* The composite of a score returned: the sum of its contributions, which are
\* the clipped features times their weights.  Scaled is (composite + 1) x 50.
Composite ==
    SeqSum([i \in DOMAIN health.feature_contributions |->
               health.feature_contributions[i].value])
Scaled == RMul(RAdd(Composite, RInt(1)), RInt(50))
Floor(x) == x.n \div x.d
\* round(x) of Python: to the nearest integer, a half to the even one.
Round(x) ==
    IF RSub(x, RInt(Floor(x))) = Rat(1, 2)
    THEN (IF Floor(x) % 2 = 0 THEN Floor(x) ELSE Floor(x) + 1)
    ELSE Floor(RAdd(x, Rat(1, 2)))

\* C18 as stated: a health_score returned is an integer of 0..100, equal to
\* (composite + 1) x 50 rounded to the nearest integer and clamped to 0..100.
C18_ScoreIsRounded ==
    (Scored /\ health.has_score) =>
        /\ health.health_score \in 0..100
        /\ health.health_score = Clamp(Round(Scaled))

\* C18 as the code has it: a health_score returned is an integer of 0..100,
\* equal to (composite + 1) x 50 truncated to its integer part and clamped to
\* 0..100; a fraction of a half or more is dropped.
C18_ScoreIsTruncated ==
    (Scored /\ health.has_score) =>
        /\ health.health_score \in 0..100
        /\ RLe(RInt(0), Scaled)
        /\ health.health_score = Clamp(Floor(Scaled))

\* A score whose scaled composite has a fraction above a half: truncated, it
\* is one less than rounded.
C18_Witness ==
    /\ Scored /\ health.has_score
    /\ RLt(Rat(1, 2), RSub(Scaled, RInt(Floor(Scaled))))
    /\ health.health_score = Round(Scaled) - 1

\* The features that the table given makes available, each with the name of
\* what it measures, its base weight and its value before clipping, in the
\* order revenue, expense, profit margin, volatility.
AvailableFeatures ==
    LET revenue_cols == Named(revenue_keywords)
        expense_cols == Named(expense_keywords)
        volatile == SelectSeq(OtherColumns, YieldsVolatility)
        ratio(c) == RDiv(ExactSqrt(Variance(InTableOrder(c))), RMean(InTableOrder(c)))
    IN  (IF revenue_cols # <<>>
         THEN <<[name |-> "Revenue Trend", base |-> Rat(4, 10),
                 value |-> NormalizedTrend(InTableOrder(revenue_cols[1]))]>>
         ELSE <<>>)
        \o (IF expense_cols # <<>>
            THEN <<[name |-> "Expense Trend", base |-> Rat(3, 10),
                    value |-> RNeg(NormalizedTrend(InTableOrder(expense_cols[1])))]>>
            ELSE <<>>)
        \o (IF revenue_cols # <<>> /\ expense_cols # <<>>
            THEN <<[name |-> "Profit Margin Trend", base |-> Rat(3, 10),
                    value |-> RMul(Trend(ProfitMargins(InTableOrder(revenue_cols[1]),
                                                       InTableOrder(expense_cols[1]))),
                                   RInt(100))]>>
            ELSE <<>>)
        \o (IF volatile # <<>>
            THEN <<[name |-> "Volatility", base |-> Rat(1, 10),
                    value |-> RNeg(RMean([i \in DOMAIN volatile |-> ratio(volatile[i])]))]>>
            ELSE <<>>)

\* C19: the weights applied to the features present are the base weights 0.4,
\* 0.3, 0.3 and 0.1 over their sum, so they sum to 1; each contribution is
\* the feature clipped to [-1, 1] times its weight; and the composite lies
\* in [-1, 1].
C19_WeightsRenormalized ==
    (Scored /\ health.has_score) =>
        LET fs == AvailableFeatures
            total == SeqSum([i \in DOMAIN fs |-> fs[i].base])
            applied == [i \in DOMAIN fs |-> RDiv(fs[i].base, total)]
        IN  /\ fs # <<>>
            /\ SeqSum(applied) = RInt(1)
            /\ Len(health.feature_contributions) = Len(fs)
            /\ \A i \in DOMAIN fs :
                  /\ RLe(RInt(-1), Clip(fs[i].value)) /\ RLe(Clip(fs[i].value), RInt(1))
                  /\ health.feature_contributions[i].value =
                         RMul(Clip(fs[i].value), applied[i])
            /\ RLe(RInt(-1), Composite) /\ RLe(Composite, RInt(1))

\* A score from all four features, whose base weights sum to 1.1, one of
\* them outside [-1, 1] before clipping.
C19_Witness ==
    /\ Scored /\ health.has_score
    /\ Len(AvailableFeatures) = 4
    /\ \E i \in DOMAIN AvailableFeatures :
          /\ AvailableFeatures[i].value # Clip(AvailableFeatures[i].value)
          /\ health.feature_contributions[i].value =
                 RMul(Clip(AvailableFeatures[i].value),
                      RDiv(AvailableFeatures[i].base, Rat(11, 10)))

\* C20: the contributions returned have one entry per feature available, each
\* under the name of the feature that its value comes from, whichever
\* features are available.
C20_ContributionsNamedByFeature ==
    (Scored /\ health.has_score) =>
        /\ Len(health.feature_contributions) = Len(AvailableFeatures)
        /\ \A i \in DOMAIN AvailableFeatures :
              health.feature_contributions[i].name = AvailableFeatures[i].name

\* What does hold: one entry per feature available, and the names right
\* whenever a revenue column is there and either an expense column is or no
\* volatility is taken.
C20_NamesRightWithRevenueAndExpense ==
    (Scored /\ health.has_score) =>
        /\ Len(health.feature_contributions) = Len(AvailableFeatures)
        /\ (Named(revenue_keywords) # <<>>
               /\ (Named(expense_keywords) # <<>> \/ Len(AvailableFeatures) = 1)) =>
                  \A i \in DOMAIN AvailableFeatures :
                      health.feature_contributions[i].name = AvailableFeatures[i].name

\* --------------------------------------------- claims on the revenue tables

\* Whether every value of a column of the table given is the same.
Constant(col) == \A i \in DOMAIN InTableOrder(col) : InTableOrder(col)[i] = InTableOrder(col)[1]

\* C21: from a table of 10 rows or more whose only numeric columns are a
\* constant revenue and a constant expense, predict_financial_health gives a
\* composite of 0, the score 50 and the "Moderate" description; revenue 100
\* and expense 50 on 10 rows is one such table.
C21_ConstantColumnsScoreFifty ==
    (Scored /\ ValueColumns = <<ColRevenue, ColExpense>>
        /\ Constant(ColRevenue) /\ Constant(ColExpense)) =>
        /\ health.has_score
        /\ Composite = RInt(0)
        /\ health.health_score = 50
        /\ health.description = "Moderate financial health"

\* The table of the scenario, scored: 10 rows, revenue 100 and expense 50.
C21_Witness ==
    /\ Scored
    /\ NRows(history) = 10
    /\ ValueColumns = <<ColRevenue, ColExpense>>
    /\ \A i \in 1..10 : /\ InTableOrder(ColRevenue)[i] = RInt(100)
                        /\ InTableOrder(ColExpense)[i] = RInt(50)
    /\ health.health_score = 50
    /\ Len(health.feature_contributions) = 3

\* The revenue of the table given by date is 100, 102, 104, ...
GrowingRevenue ==
    /\ HasCol(history, ColRevenue)
    /\ \A i \in 1..NRows(history) :
          ByDate(ColRevenue)[i] = NumCell(RInt(100 + 2 * (i - 1)))
LastRevenue == 100 + 2 * (NRows(history) - 1)

\* The rows of the table given are in the order of their dates, as
\* process_data leaves them.
RowsInDateOrder ==
    \A i \in 1..(NRows(history) - 1) :
        TsLe(Col(history, ColDate).cells[i], Col(history, ColDate).cells[i + 1])

\* C22: on a table of consecutive daily rows with revenue 100, 102, ... (15
\* rows reach 128) predict_future_values with a horizon of 7 days forecasts
\* the 7 days after the last date, whose mean is the last revenue + 8; its
\* percent_change is positive and labelled strong up exactly when above 5,
\* slight up otherwise; and the revenue-trend feature of
\* predict_financial_health, which reads the rows in table order, is positive
\* and at most 1 when the rows are in date order.
C22_GrowingRevenueScenario ==
    GrowingRevenue =>
        /\ (Predicted /\ request.value_column = ColRevenue
               /\ request.days_to_predict = 7) =>
              /\ ~prediction.raised
              /\ prediction.average_prediction = RInt(LastRevenue + 8)
              /\ RLt(RInt(0), prediction.percent_change)
              /\ prediction.trend_description =
                     (IF RLt(RInt(5), prediction.percent_change)
                      THEN "Strong upward trend" ELSE "Slight upward trend")
        /\ (Scored /\ RowsInDateOrder) =>
              /\ health.has_score
              /\ AvailableFeatures[1].name = "Revenue Trend"
              /\ RLt(RInt(0), AvailableFeatures[1].value)
              /\ RLe(AvailableFeatures[1].value, RInt(1))
              /\ health.feature_contributions[1].value = AvailableFeatures[1].value

\* The table of the scenario, forecast over 7 days and scored: 15 rows in
\* date order, the last revenue 128, a change of +6.25%.
C22_Witness ==
    /\ GrowingRevenue
    /\ NRows(history) = 15
    /\ RowsInDateOrder
    /\ Predicted /\ Scored
    /\ request.days_to_predict = 7
    /\ prediction.average_prediction = RInt(136)
    /\ prediction.percent_change = Rat(25, 4)
    /\ prediction.trend_description = "Strong upward trend"
    /\ health.feature_contributions[1].value = Rat(2, 114)

\* What the table's row order changes: predict_financial_health does not sort
\* by date, so the same rows with their dates falling down the table give a
\* negative revenue-trend feature, while the forecast is the same.
C22_RowOrderTurnsTheFeature ==
    (GrowingRevenue /\ Scored /\ ~RowsInDateOrder) =>
        RLt(health.feature_contributions[1].value, RInt(0))

\* ------------------------------------------- claims on the core operations

\* C23: a call of process_data, calculate_financial_metrics, analyze_trends,
\* predict_future_values, predict_financial_health, filter_data_by_date or
\* filter_data_by_category leaves the table it was given as it was: the same
\* rows in the same order, the same cells and the same column types.  The
\* table given is input for process_data, what process_data returned for the
\* filters, and history for the others.
C23_CallerTableKept ==
    [][/\ input' = input
       /\ history' = history
       /\ pc = "processed" => result' = result]_vars

\* process_data converted the dates of the table given, filled a missing
\* amount and sorted the rows, and a filter then kept some of the rows; the
\* table given still has its date strings, its missing amount and its order.
C23_Witness ==
    /\ pc = "filtered"
    /\ NRows(input) = 3
    /\ Col(input, ColDate).dtype = "object"
    /\ isnull(Col(input, ColAmount).cells[1])
    /\ Col(result.df, ColDate).dtype = "datetime"
    /\ ~isnull(Col(result.df, ColAmount).cells[3])
    /\ result.df.index # input.index
    /\ NRows(filtering.returned) \in 1..2

\* C24: a table that validate_financial_data accepts is classified by
\* process_data with a date column and at least one numeric column.
C24_AcceptedTableHasDateAndNumbers ==
    (pc \in {"processed", "processed_twice"} /\ verdict.ok) =>
        /\ result.date_column # NoColumn
        /\ result.numeric_columns # <<>>

\* What does hold: an accepted table gets a date column from process_data.
C24_AcceptedTableHasDate ==
    (pc \in {"processed", "processed_twice"} /\ verdict.ok) =>
        result.date_column # NoColumn

\* C25: whatever the interleaving of register_user calls of concurrent
\* sessions, no two stored users share a username or an email, two calls
\* with the same username or the same email never both return success, and
\* a call that is over has returned a value (success, or failure with a
\* message).
C25_RegistrationsStayUnique ==
    /\ \A i, j \in DOMAIN users :
          i # j => /\ users[i].username # users[j].username
                   /\ users[i].email # users[j].email
    /\ \A s, t \in Sessions :
          (/\ s # t
           /\ calls[s].returned.ok
           /\ calls[t].returned.ok) =>
              /\ calls[s].username # calls[t].username
              /\ calls[s].email # calls[t].email
    /\ \A s \in Sessions :
          (calls[s].at = "idle" /\ calls[s] # NoCall) =>
              /\ calls[s].returned # NoReturn
              /\ calls[s].returned.ok =>
                    (\E i \in DOMAIN users :
                        /\ users[i].username = calls[s].username
                        /\ users[i].email = calls[s].email
                        /\ users[i].password = hash_password(calls[s].password))

\* Two sessions passed both SELECTs with the same username; one committed
\* its row and the INSERT of the other failed on the constraint.
C25_Witness ==
    \E s, t \in Sessions :
        /\ s # t
        /\ calls[s].at = "idle" /\ calls[t].at = "idle"
        /\ calls[s].returned.ok
        /\ calls[t].username = calls[s].username
        /\ calls[t].returned = Caught("UNIQUE constraint failed")

\* C26: login_user(u, p) returns success exactly when an earlier
\* register_user call with username u and password p returned success, and
\* then returns the id, username and email of that user; otherwise it
\* returns failure with no user data.  A register_user call that returns
\* failure leaves the stored users as they were.
C26_LoginMatchesRegistration ==
    LET call == auth.call
        mine == { r \in auth.registered : /\ r.username = call.username
                                          /\ r.password = call.password }
    IN  /\ call.function = "login_user" =>
              /\ call.returned.ok = (mine # {})
              /\ call.returned.ok =>
                    \E r \in mine :
                        call.returned.user_data =
                            [id |-> r.id, username |-> r.username, email |-> r.email]
              /\ ~call.returned.ok => call.returned.user_data = NoUser
        /\ (call.function = "register_user" /\ ~call.returned.ok) =>
              users = call.before

\* A login that succeeded for the second registered user.
C26_Witness ==
    /\ auth.call.function = "login_user"
    /\ auth.call.returned.ok
    /\ auth.call.returned.user_data.id = 2
    /\ Cardinality(auth.registered) = 2

\* A login refused for a registered username with another password.
C26_WrongPassword ==
    /\ auth.call.function = "login_user"
    /\ ~auth.call.returned.ok
    /\ \E r \in auth.registered : r.username = auth.call.username

\* Registrations refused for each of the three reasons.
C26_Refused ==
    /\ auth.call.function = "register_user"
    /\ ~auth.call.returned.ok
    /\ users # <<>>

\* The displays and the state that only the dashboard produces.
DashboardStep ==
    \/ shown'.kind \in {"metrics", "report"}
    \/ shown'.text \in {"Data successfully loaded!", "Invalid data format",
                        "Error loading data", "Prediction generated",
                        "Error generating prediction"}
    \/ prediction' # prediction
    \/ session_state'.data # session_state.data
    \/ session_state'.filtered_data # session_state.filtered_data
    \/ session_state'.columns # session_state.columns

UserData(row) == [id |-> row.id, username |-> row.username, email |-> row.email]

\* C27: upload, filtering, metrics, prediction and export happen only while
\* logged_in is true; logged_in becomes true only in a step where login_user
\* returned success; and while logged_in is true user_info is the id,
\* username and email of the stored user who logged in.
C27_DashboardNeedsLogin ==
    [][/\ DashboardStep => session_state.logged_in
       /\ (~session_state.logged_in /\ session_state'.logged_in) =>
             /\ shown' = Display("success", "Login successful", "")
             /\ \E i \in DOMAIN users : session_state'.user_info = UserData(users[i])
       /\ (session_state.logged_in /\ session_state'.logged_in) =>
             session_state'.user_info = session_state.user_info
       /\ session_state'.logged_in =>
             \E i \in DOMAIN users' : session_state'.user_info = UserData(users'[i])]_vars

\* The second registered user is logged in and has exported a report.
C27_Witness ==
    /\ session_state.logged_in
    /\ session_state.user_info.id = 2
    /\ shown.kind = "report"

\* C28: Logout leaves the session as it was at its start: logged_in false,
\* no user_info, and data, filtered_data, columns, date_column,
\* numeric_columns and categorical_columns at their initial values.
C28_LogoutResetsSession ==
    [][(session_state.logged_in /\ ~session_state'.logged_in) =>
          session_state' = InitialSession]_vars

\* What Logout does reset.
C28_LogoutResetsUserAndData ==
    [][(session_state.logged_in /\ ~session_state'.logged_in) =>
          /\ session_state'.user_info = NoUser
          /\ session_state'.data = NoData
          /\ session_state'.filtered_data = NoData]_vars

\* C29: a report exported after a prediction was generated successfully
\* holds the "AI Predictions" section with that prediction's average and
\* trend description, and a report exported before any prediction does not
\* hold the section.
C29_ReportHoldsPrediction ==
    shown.kind = "report" =>
        LET sections == { shown.detail[i] : i \in DOMAIN shown.detail }
            predicted == { x \in sections : x.title = "AI Predictions" }
        IN  IF prediction.raised
            THEN predicted = {}
            ELSE \E x \in predicted :
                    /\ x.average_prediction = prediction.average_prediction
                    /\ x.trend_description = prediction.trend_description

\* The half that holds: no report holds the section.
C29_NoReportHoldsPrediction ==
    shown.kind = "report" =>
        \A i \in DOMAIN shown.detail : shown.detail[i].title # "AI Predictions"

\* A report exported after a prediction that succeeded.
C29_ReportAfterPrediction ==
    /\ shown.kind = "report"
    /\ ~prediction.raised

\* The positions of the rows of data that the call recorded in f selects:
\* none when the column is unknown or cannot be compared with a date.
Matching(data, f) ==
    IF data.none \/ f.column = NoColumn
       \/ ~ \E c \in 1..NCols(data) : data.cols[c].name = f.column
    THEN {}
    ELSE LET cells == (CHOOSE col \in Range(data.cols) : col.name = f.column).cells
             dated == (CHOOSE col \in Range(data.cols) : col.name = f.column).dtype
                          = "datetime"
         IN  { i \in 1..NRows(data) :
                 IF f.function = "filter_data_by_date"
                 THEN /\ dated
                      /\ cells[i].k = "ts"
                      /\ ~TsLe(cells[i], f.start_date) \/ cells[i] = f.start_date
                      /\ ~TsLe(f.end_date, cells[i]) \/ cells[i] = f.end_date
                 ELSE cells[i] \in f.selected_categories }

\* Row j of table out is row i of table data.
SameRow(out, j, data, i) ==
    /\ out.index[j] = data.index[i]
    /\ \A c \in 1..NCols(data) : out.cols[c].cells[j] = data.cols[c].cells[i]

\* C30: filter_data_by_date and filter_data_by_category return rows of the
\* table they are given; for a table with rows they never return a table
\* without rows, handing the table back as it is when no row matches, the
\* column is unknown or the comparison fails; and when a row matches they
\* return exactly the matching rows.
C30_FiltersKeepMatchingRows ==
    pc = "filtered" =>
        LET data == result.df
            out == filtering.returned
            matching == Matching(data, filtering)
        IN  IF data.none THEN out = data
            ELSE /\ ~out.none
                 /\ Columns(out) = Columns(data)
                 /\ \A j \in 1..NRows(out) :
                       \E i \in 1..NRows(data) : SameRow(out, j, data, i)
                 /\ ~empty(data) => ~empty(out)
                 /\ matching = {} => out = data
                 /\ matching # {} =>
                       /\ NRows(out) = Cardinality(matching)
                       /\ \A i \in matching :
                             \E j \in 1..NRows(out) : SameRow(out, j, data, i)

\* A date range that keeps some rows of the table and drops others.
C30_Witness ==
    /\ pc = "filtered"
    /\ filtering.function = "filter_data_by_date"
    /\ NRows(filtering.returned) > 0
    /\ NRows(filtering.returned) < NRows(result.df)

\* A date range and a selection that match no row of a table with rows.
C30_NothingMatches ==
    /\ pc = "filtered"
    /\ ~result.df.none
    /\ NRows(result.df) > 0
    /\ HasCol(result.df, filtering.column)
    /\ Matching(result.df, filtering) = {}
    /\ filtering.selected_categories # {} \/ filtering.function = "filter_data_by_date"

\* A selection that keeps some rows and drops others.
C30_SomeCategories ==
    /\ pc = "filtered"
    /\ filtering.function = "filter_data_by_category"
    /\ NRows(filtering.returned) > 0
    /\ NRows(filtering.returned) < NRows(result.df)

====
